---- MODULE Spec2Model ----
(***************************************************************************)
(* A model of yb::rpc::Messenger (messenger.cc): shutdown, test fault      *)
(* injection (BreakConnectivityWith / RestoreConnectivityWith) and         *)
(* outbound call routing, together with the reactor threads it drives.     *)
(*                                                                         *)
(* Threads are numbered: 1..NumReactors are the reactor threads (reactor r *)
(* runs on thread r), the remaining ones are external caller threads.      *)
(* Every Messenger method is split into steps at the points where other    *)
(* threads can observe or change shared state: lock acquisition, lock      *)
(* release, lock-free reads and calls into a Reactor.                      *)
(***************************************************************************)
EXTENDS Integers, Sequences, FiniteSets, TLC

\* ---------------------------------------------------------------- bounds
NumReactors == 2
MaxOps == 3
MaxIdx == 1

\* FLAGS_num_connections_to_server, a run-time setting of the process.
NumConnectionsToServer == 2

\* ------------------------------------------------------------- constants
ReactorIds == 1..NumReactors
ExtThreads == {NumReactors + 1, NumReactors + 2}
Threads == ReactorIds \cup ExtThreads
NoThread == 0
NoAcceptor == 0
NoLatch == -1
Addrs == {"a", "b"}
Remotes == {"a:1", "b:1"}
Hosts == {"unspecified", "a"}
Half == 65536
ServiceNames == {"S", "T"}
Handlers == {"h1", "h2"}
NoService == "none"

\* Endpoint::address()
Address(remote) == IF remote = "a:1" THEN "a" ELSE "b"

\* A uint32_t is kept as <<high 16 bits, low 16 bits>>, so that 32-bit
\* arithmetic is exact although 2^32 is not a TLC integer.
U32(n) == <<(n \div Half) % Half, n % Half>>

\* uint32_t addition without the carry from the low half into the high half.
Add32_NoCarry(x, y) == <<(x[1] + y[1]) % Half, (x[2] + y[2]) % Half>>

\* uint32_t + uint32_t: the sum wraps modulo 2^32.
Add32(x, y) ==
  LET lo == x[2] + y[2]
      hi == x[1] + y[1] + (lo \div Half)
  IN  <<hi % Half, lo % Half>>

\* uint32_t % size_t, for 1 <= n < 2^15.
Mod32(x, n) == (((x[1] % n) * (Half % n)) + (x[2] % n)) % n

\* hash_value(Endpoint): a fixed 32-bit hash of the endpoint.
hash_value(remote) == IF remote = "a:1" THEN <<Half - 1, Half - 1>> ELSE U32(7)

VARIABLES
  closing_,                 \* Messenger::closing_
  lock_,                    \* holder of Messenger::lock_ (exclusive), or NoThread
  acceptor_,                \* Messenger::acceptor_: index into acceptors, or NoAcceptor
  outbound_address_v4_,     \* Messenger::outbound_address_v4_
  reactors_,                \* Messenger::reactors_
  broken_connectivity_,     \* Messenger::broken_connectivity_
  has_broken_connectivity_, \* Messenger::has_broken_connectivity_
  acceptors,                \* every Acceptor ever created
  r_closing,                \* per reactor: Reactor::Shutdown has been called
  r_tasks,                  \* per reactor: queue of cross-thread tasks
  r_calls,                  \* per reactor: calls received by Reactor::QueueOutboundCall
  r_dropped,                \* per reactor: addresses DropWithRemoteAddress ran for
  r_stat,                   \* per reactor: number of Shutdown / Join invocations
  svc_stat,                 \* scheduler_ and io_thread_pool_ invocation counts
  latch,                    \* per thread: count of the CountDownLatch it owns
  calls,                    \* every OutboundCall that QueueOutboundCall returned for
  pc,                       \* per thread: position in the method it executes
  local,                    \* per thread: local variables of that method
  conn_phase,               \* per address: history of break / restore
  shutdown_returned,        \* threads whose Shutdown() call has returned
  n_ops,                    \* number of operations started
  rpc_services_,            \* Messenger::rpc_services_: service name -> handler
  rpc_services_cache_,      \* Messenger::rpc_services_cache_: published snapshot
  inbound,                  \* every InboundCall that was dispatched
  svc_phase,                \* per service name: history of register / unregister
  retain_self_,             \* Messenger::retain_self_ is non-null
  life,                     \* lifetime of the Messenger object
  dropper,                  \* thread running AllExternalReferencesDropped
  ret,                      \* the status most recently returned, and how many were
  next_task_id_,            \* Messenger::next_task_id_
  scheduled_tasks_,         \* Messenger::scheduled_tasks_: the ids registered
  dtasks,                   \* every DelayedTask made by ScheduleOnReactor
  aborts,                   \* every AbortOnReactor call made
  num_connections_accepted_,\* Messenger::num_connections_accepted_
  sockets,                  \* every socket passed to RegisterInboundSocket
  rt,                       \* RemoteToReactor applied to given numbers
  mutex_scheduled_tasks_,   \* holder of Messenger::mutex_scheduled_tasks_, or NoThread
  trip                      \* history of register / unregister / register of one name

vars == <<closing_, lock_, acceptor_, outbound_address_v4_, reactors_,
          broken_connectivity_, has_broken_connectivity_, acceptors,
          r_closing, r_tasks, r_calls, r_dropped, r_stat, svc_stat, latch,
          calls, pc, local, conn_phase, shutdown_returned, n_ops,
          rpc_services_, rpc_services_cache_, inbound, svc_phase,
          retain_self_, life, dropper, ret, next_task_id_, scheduled_tasks_,
          dtasks, aborts, num_connections_accepted_, sockets, rt,
          mutex_scheduled_tasks_, trip>>

messenger_vars == <<closing_, acceptor_, outbound_address_v4_, reactors_,
                    broken_connectivity_, has_broken_connectivity_>>
acceptor_vars == <<acceptor_, outbound_address_v4_, acceptors>>
conn_vars == <<broken_connectivity_, has_broken_connectivity_>>
reactor_vars == <<r_closing, r_tasks, r_calls, r_dropped, r_stat>>
history_vars == <<conn_phase, shutdown_returned>>
registry_vars == <<rpc_services_, rpc_services_cache_, inbound, svc_phase>>
lifetime_vars == <<retain_self_, life, dropper>>
task_vars == <<next_task_id_, scheduled_tasks_, dtasks, aborts>>
socket_vars == <<num_connections_accepted_, sockets>>

NoLocal == [addr |-> "none", remote |-> "none", idx |-> 0, reactor |-> 0,
            disc |-> FALSE, clean |-> FALSE, i |-> 0,
            acceptor |-> NoAcceptor, reactors |-> <<>>,
            name |-> "none", service |-> NoService, via |-> "none",
            phase |-> "none", marked |-> FALSE,
            owner |-> FALSE, task |-> 0, id |-> 0]

\* No name has been registered yet.
NoTrip == [name |-> "none", stage |-> 0, handler |-> NoService,
           registry |-> [n \in ServiceNames |-> NoService],
           cache |-> [n \in ServiceNames |-> NoService]]

NoRoute == [h |-> <<0, 0>>, idx |-> <<0, 0>>, n |-> 0, index |-> 0]

NoRet == [n |-> 0, op |-> "none", name |-> "none", handler |-> NoService,
          status |-> "none"]

\* Messenger::Messenger followed by Messenger::Init: NumReactors reactors,
\* each with its thread running its loop, no acceptor, nothing broken.
Built ==
  /\ closing_ = FALSE
  /\ lock_ = NoThread
  /\ acceptor_ = NoAcceptor
  /\ outbound_address_v4_ = "unspecified"
  /\ reactors_ = [i \in 1..NumReactors |-> i]
  /\ broken_connectivity_ = {}
  /\ has_broken_connectivity_ = FALSE
  /\ acceptors = <<>>
  /\ r_closing = [r \in ReactorIds |-> FALSE]
  /\ r_tasks = [r \in ReactorIds |-> <<>>]
  /\ r_calls = [r \in ReactorIds |-> {}]
  /\ r_dropped = [r \in ReactorIds |-> {}]
  /\ r_stat = [r \in ReactorIds |-> [shutdown |-> 0, join |-> 0]]
  /\ svc_stat = [runs |-> 0, scheduler |-> 0, io_shutdown |-> 0, io_join |-> 0]
  /\ latch = [t \in Threads |-> NoLatch]
  /\ calls = <<>>
  /\ pc = [t \in Threads |-> IF t \in ReactorIds THEN "loop" ELSE "idle"]
  /\ local = [t \in Threads |-> NoLocal]
  /\ conn_phase = [a \in Addrs |-> "open"]
  /\ shutdown_returned = {}
  /\ n_ops = 0
  /\ rpc_services_ = [n \in ServiceNames |-> NoService]
  /\ rpc_services_cache_ = [n \in ServiceNames |-> NoService]
  /\ inbound = <<>>
  /\ svc_phase = [n \in ServiceNames |-> "never"]
  /\ retain_self_ = TRUE
  /\ life = "built"
  /\ dropper = NoThread
  /\ ret = NoRet
  /\ next_task_id_ = 1
  /\ scheduled_tasks_ = {}
  /\ dtasks = <<>>
  /\ aborts = <<>>
  /\ num_connections_accepted_ = 0
  /\ sockets = <<>>
  /\ mutex_scheduled_tasks_ = NoThread
  /\ trip = NoTrip

Init == Built /\ rt = NoRoute

\* ---------------------------------------------------------------- helpers

\* A public method may be entered by an idle external thread that holds a
\* reference to the Messenger MessengerBuilder::Build returned.
CanStart(t) ==
  t \in ExtThreads /\ pc[t] = "idle" /\ n_ops < MaxOps /\ life = "built"

\* An inbound call reads the published snapshot and changes no Messenger
\* state, so one may still begin when MaxOps operations have begun.
CanObserve(t) ==
  t \in ExtThreads /\ pc[t] = "idle" /\ n_ops <= MaxOps /\ life = "built"

\* Where a thread continues when the method it runs returns: an external
\* thread is idle again, a reactor thread is back in its loop, and the thread
\* that runs AllExternalReferencesDropped is back in it after its Shutdown().
Home(t) ==
  IF t \in ReactorIds THEN "loop"
  ELSE IF t = dropper THEN "aerd_reset"
  ELSE "idle"

Return(t) ==
  /\ pc' = [pc EXCEPT ![t] = Home(t)]
  /\ local' = [local EXCEPT ![t] = NoLocal]

\* Reactor::ScheduleReactorTask: the task is appended to the reactor's queue;
\* a reactor that is shutting down accepts no new task, and a task it does
\* not accept is never run.
ScheduleReactorTask(tasks, r, task) ==
  IF r_closing[r] THEN tasks ELSE [tasks EXCEPT ![r] = Append(@, task)]

BreakPcs == {"br_insert", "br_sched", "br_wait"}
RestorePcs == {"rs_flag"}
BreakInFlight(a) == \E t \in Threads : pc[t] \in BreakPcs /\ local[t].addr = a
RestoreInFlight(a) == \E t \in Threads : pc[t] \in RestorePcs /\ local[t].addr = a

\* ------------------------------------------------------ RemoteToReactor

\* Routing that mixes a running counter into the hash (round robin over
\* the calls made so far) instead of being a function of (remote, idx).
RemoteToReactor_RoundRobin(remote, idx) ==
  reactors_[Mod32(Add32(hash_value(remote), U32(idx + Len(calls))),
                  Len(reactors_)) + 1]

\* (hashCode + idx) % reactors_.size(): the sum is a uint32_t, so it wraps
\* modulo 2^32 before the remainder is taken.
ReactorIndex(hashCode, idx, size) == Mod32(Add32(hashCode, idx), size)

\* Messenger::RemoteToReactor:
\*   uint32_t hashCode = hash_value(remote);
\*   int reactor_idx = (hashCode + idx) % reactors_.size();
\*   return reactors_[reactor_idx];
RemoteToReactor(remote, idx) ==
  reactors_[ReactorIndex(hash_value(remote), U32(idx), Len(reactors_)) + 1]

\* ---------------------------------------------------------------- Shutdown

ShutdownPcs == {"sd_lock", "sd_locked", "sd_acceptor", "sd_reactors",
                "sd_scheduler", "sd_iopool", "sd_join", "sd_iojoin"}

\* Shutdown(): std::lock_guard<percpu_rwlock> guard(lock_).  An external
\* thread enters here; a reactor thread enters from the task it runs.
ShutdownLock(t) ==
  /\ \/ CanStart(t) /\ n_ops' = n_ops + 1
     \/ pc[t] = "sd_lock" /\ UNCHANGED n_ops
  /\ lock_ = NoThread
  /\ lock_' = t
  /\ pc' = [pc EXCEPT ![t] = "sd_locked"]
  /\ UNCHANGED <<mutex_scheduled_tasks_, trip, task_vars, socket_vars, rt, registry_vars, lifetime_vars, ret,
                 messenger_vars, acceptors, reactor_vars, svc_stat, latch,
                 calls, local, history_vars>>

\* The reactor list handed over to the local variable, leaving none behind.
ReactorsAfterCopy_Moved == <<>>

\* Shutdown(): reactors = reactors_; a copy, reactors_ keeps its elements.
ReactorsAfterCopy == reactors_

\* Shutdown(), the locked block, given the outcome of `if (closing_)`:
\* return, or else set closing_, clear rpc_services_ (the DCHECK that it is
\* empty is compiled out of a release build), swap the acceptor out and
\* copy reactors_; lock_ is then held by holder_after.
ShutdownBlock(t, already_closing, holder_after) ==
  /\ pc[t] = "sd_locked"
  /\ lock_' = IF already_closing THEN NoThread ELSE holder_after
  /\ IF already_closing
     THEN /\ Return(t)
          /\ shutdown_returned' = shutdown_returned \cup {t}
          /\ UNCHANGED <<closing_, rpc_services_, acceptor_, reactors_,
                         svc_stat, trip>>
     ELSE /\ closing_' = TRUE
          /\ rpc_services_' = [n \in ServiceNames |-> NoService]
          /\ trip' = NoTrip
          /\ acceptor_' = NoAcceptor
          /\ reactors_' = ReactorsAfterCopy
          /\ svc_stat' = [svc_stat EXCEPT !.runs = @ + 1]
          /\ local' = [local EXCEPT ![t].acceptor = acceptor_,
                                    ![t].reactors = reactors_,
                                    ![t].i = 1]
          /\ pc' = [pc EXCEPT ![t] = IF acceptor_ # NoAcceptor
                                     THEN "sd_acceptor" ELSE "sd_reactors"]
          /\ UNCHANGED shutdown_returned
  /\ UNCHANGED <<mutex_scheduled_tasks_, task_vars, socket_vars, rt, rpc_services_cache_, inbound,
                 svc_phase, lifetime_vars, ret, outbound_address_v4_,
                 conn_vars, acceptors, reactor_vars, latch, calls, conn_phase,
                 n_ops>>

\* The locked block with the closing_ test left out.
ShutdownLocked_NoClosingCheck(t) == ShutdownBlock(t, FALSE, NoThread)

\* The locked block with the guard still held when the block is left.
ShutdownLocked_KeepsLock(t) == ShutdownBlock(t, closing_, t)

\* Shutdown(): { lock_guard; if (closing_) return; closing_ = true; ... }
\* the guard is released at the end of the block.
ShutdownLocked(t) == ShutdownBlock(t, closing_, NoThread)

\* Shutdown(): if (acceptor) acceptor->Shutdown();
ShutdownAcceptorStep(t) ==
  /\ pc[t] = "sd_acceptor"
  /\ acceptors' = [acceptors EXCEPT ![local[t].acceptor].shutdown = @ + 1]
  /\ pc' = [pc EXCEPT ![t] = "sd_reactors"]
  /\ UNCHANGED <<mutex_scheduled_tasks_, trip, task_vars, socket_vars, rt, registry_vars, lifetime_vars, ret,
                 messenger_vars, lock_, reactor_vars, svc_stat, latch, calls,
                 local, history_vars, n_ops>>

\* Shutdown(): for (auto* reactor : reactors) reactor->Shutdown();
\* one reactor per step.
ShutdownReactors(t) ==
  /\ pc[t] = "sd_reactors"
  /\ LET r == local[t].reactors[local[t].i]
         last == local[t].i = Len(local[t].reactors)
     IN  /\ r_closing' = [r_closing EXCEPT ![r] = TRUE]
         /\ r_stat' = [r_stat EXCEPT ![r].shutdown = @ + 1]
         /\ local' = [local EXCEPT ![t].i = IF last THEN 0 ELSE @ + 1]
         /\ pc' = [pc EXCEPT ![t] = IF last THEN "sd_scheduler" ELSE @]
  /\ UNCHANGED <<mutex_scheduled_tasks_, trip, task_vars, socket_vars, rt, registry_vars, lifetime_vars, ret,
                 messenger_vars, lock_, acceptors, r_tasks, r_calls,
                 r_dropped, svc_stat, latch, calls, history_vars, n_ops>>

\* The scheduler left running on the way to the joins.
ShutdownScheduler_Skipped(t) ==
  /\ pc[t] = "sd_scheduler"
  /\ pc' = [pc EXCEPT ![t] = "sd_iopool"]
  /\ UNCHANGED <<mutex_scheduled_tasks_, trip, task_vars, socket_vars, rt, registry_vars, lifetime_vars, ret,
                 messenger_vars, lock_, acceptors, reactor_vars, svc_stat,
                 latch, calls, local, history_vars, n_ops>>

\* Shutdown(): scheduler_.Shutdown();
ShutdownScheduler(t) ==
  /\ pc[t] = "sd_scheduler"
  /\ svc_stat' = [svc_stat EXCEPT !.scheduler = @ + 1]
  /\ pc' = [pc EXCEPT ![t] = "sd_iopool"]
  /\ UNCHANGED <<mutex_scheduled_tasks_, trip, task_vars, socket_vars, rt, registry_vars, lifetime_vars, ret,
                 messenger_vars, lock_, acceptors, reactor_vars, latch, calls,
                 local, history_vars, n_ops>>

\* Shutdown(): io_thread_pool_.Shutdown();
ShutdownIoPool(t) ==
  /\ pc[t] = "sd_iopool"
  /\ svc_stat' = [svc_stat EXCEPT !.io_shutdown = @ + 1]
  /\ pc' = [pc EXCEPT ![t] = "sd_join"]
  /\ local' = [local EXCEPT ![t].i = 1]
  /\ UNCHANGED <<mutex_scheduled_tasks_, trip, task_vars, socket_vars, rt, registry_vars, lifetime_vars, ret,
                 messenger_vars, lock_, acceptors, reactor_vars, latch, calls,
                 history_vars, n_ops>>

\* Reactor::Join: blocks until the reactor's thread has exited.
Joinable(r) == pc[r] = "exited"

\* Shutdown(): for (auto* reactor : reactors) reactor->Join();
\* one reactor per step, each blocking until that reactor's thread exited.
ShutdownJoin(t) ==
  /\ pc[t] = "sd_join"
  /\ LET r == local[t].reactors[local[t].i]
         last == local[t].i = Len(local[t].reactors)
     IN  /\ Joinable(r)
         /\ r_stat' = [r_stat EXCEPT ![r].join = @ + 1]
         /\ local' = [local EXCEPT ![t].i = IF last THEN 0 ELSE @ + 1]
         /\ pc' = [pc EXCEPT ![t] = IF last THEN "sd_iojoin" ELSE @]
  /\ UNCHANGED <<mutex_scheduled_tasks_, trip, task_vars, socket_vars, rt, registry_vars, lifetime_vars, ret,
                 messenger_vars, lock_, acceptors, r_closing, r_tasks, r_calls,
                 r_dropped, svc_stat, latch, calls, history_vars, n_ops>>

\* Shutdown(): io_thread_pool_.Join(); and the method returns.
ShutdownIoJoin(t) ==
  /\ pc[t] = "sd_iojoin"
  /\ svc_stat' = [svc_stat EXCEPT !.io_join = @ + 1]
  /\ Return(t)
  /\ shutdown_returned' = shutdown_returned \cup {t}
  /\ UNCHANGED <<mutex_scheduled_tasks_, trip, task_vars, socket_vars, rt, registry_vars, lifetime_vars, ret,
                 messenger_vars, lock_, acceptors, reactor_vars, latch, calls,
                 conn_phase, n_ops>>

\* ------------------------------------------------------- fault injection

QueuePcs == {"qo_set", "qo_act"}
RegisterSocketPcs == {"ri_set", "ri_act", "ri_hand"}

\* History only: what a call of BreakConnectivityWith(a) /
\* RestoreConnectivityWith(a) means for the threads that are inside a method
\* concerning the same address.
NoteBreakCalled(loc, a) ==
  [u \in Threads |->
     IF pc[u] \in QueuePcs /\ Address(loc[u].remote) = a
     THEN [loc[u] EXCEPT !.clean = FALSE] ELSE loc[u]]

NoteRestoreCalled(loc, a) ==
  [u \in Threads |->
     IF \/ pc[u] \in BreakPcs /\ loc[u].addr = a
        \/ pc[u] \in RegisterSocketPcs /\ Address(loc[u].remote) = a
     THEN [loc[u] EXCEPT !.clean = FALSE] ELSE loc[u]]

\* BreakConnectivityWith returns: the address is "sealed" from now on unless
\* a RestoreConnectivityWith for it was called while the break was running.
BreakReturns(t) ==
  /\ conn_phase' = [conn_phase EXCEPT ![local[t].addr] =
                      IF local[t].clean THEN "sealed" ELSE @]
  /\ Return(t)

\* BreakConnectivityWith(address): lock_guard(lock_);
\*   if (broken_connectivity_.empty()) has_broken_connectivity_.store(true);
BreakLock(t) ==
  /\ CanStart(t)
  /\ lock_ = NoThread
  /\ \E a \in Addrs :
       /\ local' = [NoteBreakCalled(local, a) EXCEPT
                      ![t] = [NoLocal EXCEPT !.addr = a, !.clean = TRUE]]
       /\ conn_phase' = [conn_phase EXCEPT ![a] = "open"]
  /\ lock_' = t
  /\ has_broken_connectivity_' =
       IF broken_connectivity_ = {} THEN TRUE ELSE has_broken_connectivity_
  /\ pc' = [pc EXCEPT ![t] = "br_insert"]
  /\ n_ops' = n_ops + 1
  /\ UNCHANGED <<mutex_scheduled_tasks_, trip, task_vars, socket_vars, rt, registry_vars, lifetime_vars, ret,
                 closing_, acceptor_vars, reactors_, broken_connectivity_,
                 reactor_vars, svc_stat, latch, calls, shutdown_returned>>

\* BreakConnectivityWith: if (broken_connectivity_.insert(address).second)
\*   latch.reset(new CountDownLatch(reactors_.size()));
\* When the address was already in the set no latch is made: the guard is
\* released and the method returns at once.
BreakInsert(t) ==
  /\ pc[t] = "br_insert"
  /\ IF local[t].addr \notin broken_connectivity_
     THEN /\ broken_connectivity_' = broken_connectivity_ \cup {local[t].addr}
          /\ latch' = [latch EXCEPT ![t] = Len(reactors_)]
          /\ local' = [local EXCEPT ![t].i = 1]
          /\ pc' = [pc EXCEPT ![t] = "br_sched"]
          /\ UNCHANGED <<lock_, conn_phase>>
     ELSE /\ lock_' = NoThread
          /\ BreakReturns(t)
          /\ UNCHANGED <<broken_connectivity_, latch>>
  /\ UNCHANGED <<mutex_scheduled_tasks_, trip, task_vars, socket_vars, rt, registry_vars, lifetime_vars, ret,
                 closing_, acceptor_vars, reactors_, has_broken_connectivity_,
                 reactor_vars, svc_stat, calls, shutdown_returned, n_ops>>

\* BreakConnectivityWith: for (auto* reactor : reactors_)
\*   reactor->ScheduleReactorTask(<DropWithRemoteAddress; latch->CountDown>);
\* one reactor per step; the guard is released after the last one.
BreakSchedule(t) ==
  /\ pc[t] = "br_sched"
  /\ LET r == reactors_[local[t].i]
         last == local[t].i = Len(reactors_)
         task == [type |-> "drop", addr |-> local[t].addr, owner |-> t, call |-> 0]
     IN  /\ r_tasks' = ScheduleReactorTask(r_tasks, r, task)
         /\ local' = [local EXCEPT ![t].i = IF last THEN 0 ELSE @ + 1]
         /\ pc' = [pc EXCEPT ![t] = IF last THEN "br_wait" ELSE @]
         /\ lock_' = IF last THEN NoThread ELSE lock_
  /\ UNCHANGED <<mutex_scheduled_tasks_, trip, task_vars, socket_vars, rt, registry_vars, lifetime_vars, ret,
                 messenger_vars, acceptors, r_closing, r_calls, r_dropped,
                 r_stat, svc_stat, latch, calls, history_vars, n_ops>>

\* BreakConnectivityWith: if (latch) latch->Wait(); and the method returns.
BreakWait(t) ==
  /\ pc[t] = "br_wait"
  /\ latch[t] = 0
  /\ latch' = [latch EXCEPT ![t] = NoLatch]
  /\ BreakReturns(t)
  /\ UNCHANGED <<mutex_scheduled_tasks_, trip, task_vars, socket_vars, rt, registry_vars, lifetime_vars, ret,
                 messenger_vars, lock_, acceptors, reactor_vars, svc_stat,
                 calls, shutdown_returned, n_ops>>

\* The set left unchanged.
EraseBroken_Nothing(addr) == broken_connectivity_

\* broken_connectivity_.erase(address)
EraseBroken(addr) == broken_connectivity_ \ {addr}

\* RestoreConnectivityWith(address): lock_guard(lock_);
\*   broken_connectivity_.erase(address);
RestoreLock(t) ==
  /\ CanStart(t)
  /\ lock_ = NoThread
  /\ \E a \in Addrs :
       /\ broken_connectivity_' = EraseBroken(a)
       /\ local' = [NoteRestoreCalled(local, a) EXCEPT
                      ![t] = [NoLocal EXCEPT !.addr = a]]
       /\ conn_phase' = [conn_phase EXCEPT ![a] =
                           IF @ = "sealed" THEN "restoring" ELSE @]
  /\ lock_' = t
  /\ pc' = [pc EXCEPT ![t] = "rs_flag"]
  /\ n_ops' = n_ops + 1
  /\ UNCHANGED <<mutex_scheduled_tasks_, trip, task_vars, socket_vars, rt, registry_vars, lifetime_vars, ret,
                 closing_, acceptor_vars, reactors_, has_broken_connectivity_,
                 reactor_vars, svc_stat, latch, calls, shutdown_returned>>

\* The flag left as it is.
FlagAfterErase_Kept == has_broken_connectivity_

\* if (broken_connectivity_.empty())
\*   has_broken_connectivity_.store(false, std::memory_order_release);
FlagAfterErase ==
  IF broken_connectivity_ = {} THEN FALSE ELSE has_broken_connectivity_

\* RestoreConnectivityWith: if (broken_connectivity_.empty())
\*   has_broken_connectivity_.store(false); the guard is released and the
\* method returns.
RestoreFlag(t) ==
  /\ pc[t] = "rs_flag"
  /\ has_broken_connectivity_' = FlagAfterErase
  /\ lock_' = NoThread
  /\ conn_phase' = [conn_phase EXCEPT ![local[t].addr] =
                      IF @ = "restoring" /\ ~BreakInFlight(local[t].addr)
                      THEN "restored" ELSE @]
  /\ Return(t)
  /\ UNCHANGED <<mutex_scheduled_tasks_, trip, task_vars, socket_vars, rt, registry_vars, lifetime_vars, ret,
                 closing_, acceptor_vars, reactors_, broken_connectivity_,
                 reactor_vars, svc_stat, latch, calls, shutdown_returned, n_ops>>

\* ------------------------------------------------------ QueueOutboundCall

\* IsArtificiallyDisconnectedFrom, under the shared lock:
\*   return broken_connectivity_.count(remote) != 0;
LookupBroken(addr) == addr \in broken_connectivity_

\* QueueOutboundCall(call): RemoteToReactor(remote, idx), then the lock-free
\* part of IsArtificiallyDisconnectedFrom: the load of
\* has_broken_connectivity_; when it is false the answer is false.
QueueOutboundCallStart(t) ==
  /\ CanStart(t)
  /\ \E remote \in Remotes, idx \in 0..MaxIdx :
       local' = [local EXCEPT ![t] =
                   [NoLocal EXCEPT !.remote = remote, !.idx = idx,
                                   !.reactor = RemoteToReactor(remote, idx),
                                   !.clean = conn_phase[Address(remote)] = "restored"]]
  /\ pc' = [pc EXCEPT ![t] = IF has_broken_connectivity_ THEN "qo_set" ELSE "qo_act"]
  /\ n_ops' = n_ops + 1
  /\ UNCHANGED <<mutex_scheduled_tasks_, trip, task_vars, socket_vars, rt, registry_vars, lifetime_vars, ret,
                 messenger_vars, lock_, acceptors, reactor_vars, svc_stat, latch,
                 calls, history_vars>>

\* IsArtificiallyDisconnectedFrom: shared_lock<rw_spinlock> guard(...); the
\* reader waits while a writer holds lock_, then looks the address up.
IsArtificiallyDisconnectedFrom(t) ==
  /\ pc[t] = "qo_set"
  /\ lock_ = NoThread
  /\ local' = [local EXCEPT ![t].disc = LookupBroken(Address(local[t].remote))]
  /\ pc' = [pc EXCEPT ![t] = "qo_act"]
  /\ UNCHANGED <<mutex_scheduled_tasks_, trip, task_vars, socket_vars, rt, registry_vars, lifetime_vars, ret,
                 messenger_vars, lock_, acceptors, reactor_vars, svc_stat, latch,
                 calls, history_vars, n_ops>>

\* The OutboundCall as QueueOutboundCall leaves it.
CallRecord(t) ==
  [remote |-> local[t].remote, idx |-> local[t].idx, reactor |-> local[t].reactor,
   disc |-> local[t].disc, clean |-> local[t].clean,
   sealed |-> conn_phase[Address(local[t].remote)] = "sealed",
   failed |-> 0, failed_on |-> 0]

\* The `return` of the disconnected branch left out.
ReachesReactorQueue_NoReturn(disc) == TRUE

\* QueueOutboundCall: reactor->QueueOutboundCall(std::move(call)) is reached
\* only when the disconnected branch, which ends in `return`, is not taken.
ReachesReactorQueue(disc) == ~disc

\* QueueOutboundCall: if disconnected, schedule on the reactor a task that
\* calls call->Transferred(NetworkError) and return; otherwise
\* reactor->QueueOutboundCall(call).
QueueOutboundCallAct(t) ==
  /\ pc[t] = "qo_act"
  /\ LET c == Len(calls) + 1
         r == local[t].reactor
         task == [type |-> "fail", addr |-> "none", owner |-> t, call |-> c]
     IN  /\ calls' = Append(calls, CallRecord(t))
         /\ r_tasks' = IF local[t].disc
                       THEN ScheduleReactorTask(r_tasks, r, task)
                       ELSE r_tasks
         /\ r_calls' = IF ReachesReactorQueue(local[t].disc)
                       THEN [r_calls EXCEPT ![r] = @ \cup {c}]
                       ELSE r_calls
  /\ Return(t)
  /\ UNCHANGED <<mutex_scheduled_tasks_, trip, task_vars, socket_vars, rt, registry_vars, lifetime_vars, ret,
                 messenger_vars, lock_, acceptors, r_closing, r_dropped, r_stat,
                 svc_stat, latch, history_vars, n_ops>>

\* --------------------------------------------------- RegisterInboundSocket

\* An accept index that ignores the counter.
AcceptIdx_Zero(counter) == 0

\* int idx = num_connections_accepted_.fetch_add(1)
\*             % FLAGS_num_connections_to_server;
\* with the value the counter had before the addition.
AcceptIdx(counter) == counter % NumConnectionsToServer

\* RegisterInboundSocket(new_socket, remote) begins with
\* IsArtificiallyDisconnectedFrom(remote.address()), whose lock-free part is
\* the load of has_broken_connectivity_: when it is false the answer is
\* false.  History: clean notes that the address was sealed when the method
\* was entered, marked that the address was in broken_connectivity_ when its
\* answer was decided.
RegisterInboundSocketStart(t) ==
  /\ CanStart(t)
  /\ \E remote \in Remotes :
       local' = [local EXCEPT ![t] =
                   [NoLocal EXCEPT
                      !.remote = remote,
                      !.clean = conn_phase[Address(remote)] = "sealed",
                      !.marked = Address(remote) \in broken_connectivity_]]
  /\ pc' = [pc EXCEPT ![t] = IF has_broken_connectivity_ THEN "ri_set" ELSE "ri_act"]
  /\ n_ops' = n_ops + 1
  /\ UNCHANGED <<mutex_scheduled_tasks_, trip, task_vars, socket_vars, rt, registry_vars, lifetime_vars, ret,
                 messenger_vars, lock_, acceptors, reactor_vars, svc_stat, latch,
                 calls, history_vars>>

\* IsArtificiallyDisconnectedFrom under the shared lock, as called by
\* RegisterInboundSocket.
RegisterInboundSocketLookup(t) ==
  /\ pc[t] = "ri_set"
  /\ lock_ = NoThread
  /\ local' = [local EXCEPT
                 ![t].disc = LookupBroken(Address(local[t].remote)),
                 ![t].marked = Address(local[t].remote) \in broken_connectivity_]
  /\ pc' = [pc EXCEPT ![t] = "ri_act"]
  /\ UNCHANGED <<mutex_scheduled_tasks_, trip, task_vars, socket_vars, rt, registry_vars, lifetime_vars, ret,
                 messenger_vars, lock_, acceptors, reactor_vars, svc_stat, latch,
                 calls, history_vars, n_ops>>

\* A check whose outcome is ignored.
Rejects_Never(disc) == FALSE

\* if (IsArtificiallyDisconnectedFrom(remote.address())) { ...; return; }
Rejects(disc) == disc

\* The socket as RegisterInboundSocket leaves it; handed holds the reactors
\* whose RegisterInboundSocket was called with it.
SocketRecord(t, closed, handed) ==
  [remote |-> local[t].remote, marked |-> local[t].marked,
   sealed |-> local[t].clean, closed |-> closed, handed |-> handed,
   counter |-> local[t].i, idx |-> local[t].idx]

\* RegisterInboundSocket after the check:
\*   if (disconnected) { new_socket->Close(); return; }
\*   int idx = num_connections_accepted_.fetch_add(1) % FLAGS_...;
RegisterInboundSocketAct(t) ==
  /\ pc[t] = "ri_act"
  /\ IF Rejects(local[t].disc)
     THEN /\ sockets' = Append(sockets, SocketRecord(t, TRUE, {}))
          /\ Return(t)
          /\ UNCHANGED num_connections_accepted_
     ELSE /\ num_connections_accepted_' = num_connections_accepted_ + 1
          /\ local' = [local EXCEPT
                         ![t].i = num_connections_accepted_,
                         ![t].idx = AcceptIdx(num_connections_accepted_)]
          /\ pc' = [pc EXCEPT ![t] = "ri_hand"]
          /\ UNCHANGED sockets
  /\ UNCHANGED <<mutex_scheduled_tasks_, trip, task_vars, rt, registry_vars, lifetime_vars, ret,
                 messenger_vars, lock_, acceptors, reactor_vars, svc_stat, latch,
                 calls, history_vars, n_ops>>

\* RegisterInboundSocket, the end:
\*   Reactor *reactor = RemoteToReactor(remote, idx);
\*   reactor->RegisterInboundSocket(new_socket, remote);
RegisterInboundSocketHand(t) ==
  /\ pc[t] = "ri_hand"
  /\ sockets' = Append(sockets,
       SocketRecord(t, FALSE, {RemoteToReactor(local[t].remote, local[t].idx)}))
  /\ Return(t)
  /\ UNCHANGED <<mutex_scheduled_tasks_, trip, task_vars, num_connections_accepted_, rt, registry_vars,
                 lifetime_vars, ret, messenger_vars, lock_, acceptors,
                 reactor_vars, svc_stat, latch, calls, history_vars, n_ops>>

\* ----------------------------------------------------------- ListenAddress

\* ListenAddress(accept_endpoint), the locked block: create the Acceptor if
\* there is none, note the first specified accept host as the outbound
\* address, and take the acceptor pointer.
ListenAddress(t) ==
  /\ CanStart(t)
  /\ lock_ = NoThread
  /\ \E host \in Hosts :
       outbound_address_v4_' =
         IF outbound_address_v4_ = "unspecified" /\ host # "unspecified"
         THEN host ELSE outbound_address_v4_
  /\ IF acceptor_ = NoAcceptor
     THEN /\ acceptors' = Append(acceptors, [listen |-> 0, start |-> 0, shutdown |-> 0,
                                             late |-> 0])
          /\ acceptor_' = Len(acceptors) + 1
     ELSE UNCHANGED <<acceptors, acceptor_>>
  /\ local' = [local EXCEPT ![t].acceptor = acceptor_']
  /\ pc' = [pc EXCEPT ![t] = "la_listen"]
  /\ n_ops' = n_ops + 1
  /\ UNCHANGED <<mutex_scheduled_tasks_, trip, task_vars, socket_vars, rt, registry_vars, lifetime_vars, ret,
                 closing_, lock_, reactors_, conn_vars, reactor_vars, svc_stat,
                 latch, calls, history_vars>>

\* ListenAddress: return acceptor->Listen(accept_endpoint, bound_endpoint);
\* called after the guard is released, through the plain pointer taken
\* inside it.  History: late counts the calls made when Acceptor::Shutdown
\* had been called on the acceptor already.
ListenAddressListen(t) ==
  /\ pc[t] = "la_listen"
  /\ LET a == local[t].acceptor
     IN  acceptors' = [acceptors EXCEPT
                         ![a].listen = @ + 1,
                         ![a].late = IF acceptors[a].shutdown > 0
                                     THEN @ + 1 ELSE @]
  /\ Return(t)
  /\ UNCHANGED <<mutex_scheduled_tasks_, trip, task_vars, socket_vars, rt, registry_vars, lifetime_vars, ret,
                 messenger_vars, lock_, reactor_vars, svc_stat, latch, calls,
                 history_vars, n_ops>>

\* ------------------------------------------------------- ScheduleOnReactor

\* ScheduleOnReactor(func, when, nullptr) from a thread that is no reactor
\* thread: chosen = reactors_[rand() % reactors_.size()], task_id = 0,
\* chosen->ScheduleReactorTask(task).  The func scheduled here calls
\* Messenger::Shutdown().
ScheduleOnReactor(t) ==
  /\ CanStart(t)
  /\ \E k \in 1..Len(reactors_) :
       r_tasks' = ScheduleReactorTask(r_tasks, reactors_[k],
                    [type |-> "delayed", addr |-> "none", owner |-> t, call |-> 0])
  /\ n_ops' = n_ops + 1
  /\ UNCHANGED <<mutex_scheduled_tasks_, trip, task_vars, socket_vars, rt, registry_vars, lifetime_vars, ret,
                 messenger_vars, lock_, acceptors, r_closing, r_calls, r_dropped,
                 r_stat, svc_stat, latch, calls, pc, local, history_vars>>

\* ----------------------------------------------------------------- Reactor

\* The reactor thread takes the next task of its queue and runs it:
\*   "drop"     reactor->DropWithRemoteAddress(address); latch->CountDown();
\*   "fail"     call->Transferred(NetworkError, nullptr);
\*   "delayed"  the scheduled func, which enters Messenger::Shutdown().
ReactorRunTask(r) ==
  /\ pc[r] = "loop"
  /\ r_tasks[r] # <<>>
  /\ LET task == Head(r_tasks[r])
     IN  /\ r_tasks' = [r_tasks EXCEPT ![r] = Tail(@)]
         /\ r_dropped' = IF task.type = "drop"
                         THEN [r_dropped EXCEPT ![r] = @ \cup {task.addr}]
                         ELSE r_dropped
         /\ latch' = IF task.type = "drop"
                     THEN [latch EXCEPT ![task.owner] = @ - 1]
                     ELSE latch
         /\ calls' = IF task.type = "fail"
                     THEN [calls EXCEPT ![task.call].failed = @ + 1,
                                        ![task.call].failed_on = r]
                     ELSE calls
         /\ pc' = IF task.type = "delayed"
                  THEN [pc EXCEPT ![r] = "sd_lock"]
                  ELSE pc
  /\ UNCHANGED <<mutex_scheduled_tasks_, trip, task_vars, socket_vars, rt, registry_vars, lifetime_vars, ret,
                 messenger_vars, lock_, acceptors, r_closing, r_calls, r_stat,
                 svc_stat, local, history_vars, n_ops>>

\* After Reactor::Shutdown the reactor thread leaves its loop.  Whether it
\* still runs tasks that were queued before is not fixed: it may run some of
\* them first (ReactorRunTask stays enabled) and it may leave at once; the
\* tasks still queued when it leaves are never run.
ReactorExit(r) ==
  /\ pc[r] = "loop"
  /\ r_closing[r]
  /\ pc' = [pc EXCEPT ![r] = "exited"]
  /\ r_tasks' = [r_tasks EXCEPT ![r] = <<>>]
  /\ UNCHANGED <<mutex_scheduled_tasks_, trip, task_vars, socket_vars, rt, registry_vars, lifetime_vars, ret,
                 messenger_vars, lock_, acceptors, r_closing, r_calls, r_dropped,
                 r_stat, svc_stat, latch, calls, local, history_vars, n_ops>>

\* --------------------------------------------------------- service registry

\* A method returns `status` to its caller.
Returns(op, name, handler, status) ==
  ret' = [n |-> ret.n + 1, op |-> op, name |-> name, handler |-> handler,
          status |-> status]

\* An insertion that replaces the handler of a name that is present.
InsertIfNotPresent_Overwrite(m, name, service) ==
  [inserted |-> TRUE, map |-> [m EXCEPT ![name] = service]]

\* InsertIfNotPresent(&rpc_services_, service_name, service): whether the
\* name was absent, and the map afterwards.
InsertIfNotPresent(m, name, service) ==
  IF m[name] = NoService
  THEN [inserted |-> TRUE, map |-> [m EXCEPT ![name] = service]]
  ELSE [inserted |-> FALSE, map |-> m]

\* An erase that empties the whole map.
Erase_Everything(m, name) ==
  [erased |-> m[name] # NoService, map |-> [n \in ServiceNames |-> NoService]]

\* rpc_services_.erase(service_name): whether an entry was removed, and the
\* map afterwards.
Erase(m, name) ==
  [erased |-> m[name] # NoService, map |-> [m EXCEPT ![name] = NoService]]

\* A republication that leaves the old snapshot in place.
UpdateServicesCache_Stale == rpc_services_cache_

\* UpdateServicesCache(&guard): rpc_services_cache_.Set(rpc_services_);
UpdateServicesCache == rpc_services_

\* History of one name through RegisterService, UnregisterService and
\* RegisterService again, with the registry and the snapshot as they were
\* before the first of the three: stage 1 after the insertion, 2 after the
\* erase that follows it, 3 after the insertion that follows that.  Any
\* other change of the registry starts the history anew.
TripAfterInsert(name, service) ==
  IF trip.stage = 2 /\ trip.name = name
  THEN [trip EXCEPT !.stage = 3, !.handler = service]
  ELSE [name |-> name, stage |-> 1, handler |-> service,
        registry |-> rpc_services_, cache |-> rpc_services_cache_]

TripAfterErase(name) ==
  IF trip.stage = 1 /\ trip.name = name
  THEN [trip EXCEPT !.stage = 2]
  ELSE NoTrip

\* RegisterService(service_name, service): lock_guard, InsertIfNotPresent;
\* a name that is present returns AlreadyPresent (the guard is released), an
\* inserted one goes on to UpdateServicesCache with lock_ held.
RegisterService(t) ==
  /\ CanStart(t)
  /\ lock_ = NoThread
  /\ n_ops' = n_ops + 1
  /\ \E name \in ServiceNames, service \in Handlers :
       LET ins == InsertIfNotPresent(rpc_services_, name, service)
       IN  IF ins.inserted
           THEN /\ rpc_services_' = ins.map
                /\ lock_' = t
                /\ pc' = [pc EXCEPT ![t] = "reg_cache"]
                /\ local' = [local EXCEPT ![t].name = name,
                                          ![t].service = service]
                /\ svc_phase' = [svc_phase EXCEPT ![name] = "changing"]
                /\ trip' = TripAfterInsert(name, service)
                /\ UNCHANGED ret
           ELSE /\ Returns("RegisterService", name, service, "AlreadyPresent")
                /\ UNCHANGED <<rpc_services_, lock_, pc, local, svc_phase,
                               trip>>
  /\ UNCHANGED <<mutex_scheduled_tasks_, task_vars, socket_vars, rt, rpc_services_cache_, inbound, lifetime_vars, messenger_vars,
                 acceptors, reactor_vars, svc_stat, latch, calls, history_vars>>

\* RegisterService: UpdateServicesCache(&guard); return Status::OK();
RegisterServiceCache(t) ==
  /\ pc[t] = "reg_cache"
  /\ rpc_services_cache_' = UpdateServicesCache
  /\ lock_' = NoThread
  /\ svc_phase' = [svc_phase EXCEPT ![local[t].name] = local[t].service]
  /\ Returns("RegisterService", local[t].name, local[t].service, "OK")
  /\ Return(t)
  /\ UNCHANGED <<mutex_scheduled_tasks_, trip, task_vars, socket_vars, rt, rpc_services_, inbound, lifetime_vars, messenger_vars,
                 acceptors, reactor_vars, svc_stat, latch, calls, history_vars,
                 n_ops>>

\* UnregisterService(service_name): lock_guard, rpc_services_.erase; a name
\* that is absent returns ServiceUnavailable, an erased one goes on to
\* UpdateServicesCache with lock_ held.
UnregisterService(t) ==
  /\ CanStart(t)
  /\ lock_ = NoThread
  /\ n_ops' = n_ops + 1
  /\ \E name \in ServiceNames :
       LET er == Erase(rpc_services_, name)
       IN  IF er.erased
           THEN /\ rpc_services_' = er.map
                /\ lock_' = t
                /\ pc' = [pc EXCEPT ![t] = "unreg_cache"]
                /\ local' = [local EXCEPT ![t].name = name]
                /\ svc_phase' = [svc_phase EXCEPT ![name] = "changing"]
                /\ trip' = TripAfterErase(name)
                /\ UNCHANGED ret
           ELSE /\ Returns("UnregisterService", name, NoService,
                           "ServiceUnavailable")
                /\ UNCHANGED <<rpc_services_, lock_, pc, local, svc_phase,
                               trip>>
  /\ UNCHANGED <<mutex_scheduled_tasks_, task_vars, socket_vars, rt, rpc_services_cache_, inbound, lifetime_vars, messenger_vars,
                 acceptors, reactor_vars, svc_stat, latch, calls, history_vars>>

\* UnregisterService: UpdateServicesCache(&guard); return Status::OK();
UnregisterServiceCache(t) ==
  /\ pc[t] = "unreg_cache"
  /\ rpc_services_cache_' = UpdateServicesCache
  /\ lock_' = NoThread
  /\ svc_phase' = [svc_phase EXCEPT ![local[t].name] = "unregistered"]
  /\ Returns("UnregisterService", local[t].name, NoService, "OK")
  /\ Return(t)
  /\ UNCHANGED <<mutex_scheduled_tasks_, trip, task_vars, socket_vars, rt, rpc_services_, inbound, lifetime_vars, messenger_vars,
                 acceptors, reactor_vars, svc_stat, latch, calls, history_vars,
                 n_ops>>

\* A swap that leaves the registry as it is.
SwapWithCopy_Kept == rpc_services_

\* rpc_services_.swap(rpc_services_copy) with the empty rpc_services_copy:
\* the registry afterwards.
SwapWithCopy == [n \in ServiceNames |-> NoService]

\* UnregisterAllServices(): lock_guard, rpc_services_.swap(rpc_services_copy)
\* with an empty copy.
UnregisterAllServices(t) ==
  /\ CanStart(t)
  /\ lock_ = NoThread
  /\ n_ops' = n_ops + 1
  /\ rpc_services_' = SwapWithCopy
  /\ lock_' = t
  /\ pc' = [pc EXCEPT ![t] = "unall_cache"]
  /\ svc_phase' = [n \in ServiceNames |-> "changing"]
  /\ trip' = NoTrip
  /\ UNCHANGED <<mutex_scheduled_tasks_, task_vars, socket_vars, rt, rpc_services_cache_, inbound, lifetime_vars, ret,
                 messenger_vars, acceptors, reactor_vars, svc_stat, latch,
                 calls, local, history_vars>>

\* UnregisterAllServices: UpdateServicesCache(&guard); the guard is released,
\* the drained services are deleted, return Status::OK();
UnregisterAllServicesCache(t) ==
  /\ pc[t] = "unall_cache"
  /\ rpc_services_cache_' = UpdateServicesCache
  /\ lock_' = NoThread
  /\ svc_phase' = [n \in ServiceNames |-> "unregistered"]
  /\ Returns("UnregisterAllServices", "none", NoService, "OK")
  /\ Return(t)
  /\ UNCHANGED <<mutex_scheduled_tasks_, trip, task_vars, socket_vars, rt, rpc_services_, inbound, lifetime_vars, messenger_vars,
                 acceptors, reactor_vars, svc_stat, latch, calls, history_vars,
                 n_ops>>

\* ----------------------------------------------------------- inbound calls

\* rpc_service(service_name): the handler the published snapshot holds for
\* the name, or a null pointer.
rpc_service(name) == rpc_services_cache_[name]

\* QueueInboundCall(call) and Handle(call) begin alike:
\*   auto service = rpc_service(call->service_name());
InboundStart(t, via) ==
  /\ CanObserve(t)
  /\ n_ops' = n_ops + 1
  /\ \E name \in ServiceNames :
       local' = [local EXCEPT ![t].name = name,
                              ![t].service = rpc_service(name),
                              ![t].via = via,
                              ![t].phase = svc_phase[name]]
  /\ pc' = [pc EXCEPT ![t] = "in_dispatch"]
  /\ UNCHANGED <<mutex_scheduled_tasks_, trip, task_vars, socket_vars, rt, registry_vars, lifetime_vars, ret, messenger_vars, lock_,
                 acceptors, reactor_vars, svc_stat, latch, calls, history_vars>>

QueueInboundCall(t) == InboundStart(t, "QueueInboundCall")

Handle(t) == InboundStart(t, "Handle")

\* A dispatch that goes on to the service after RespondFailure.
HandsToService_NoReturn(service) == TRUE

\* if (PREDICT_FALSE(!service)) { ... call->RespondFailure(...); return; }
\* service->QueueInboundCall(call) / service->Handle(call) is reached only
\* with a service.
HandsToService(service) == service # NoService

\* QueueInboundCall / Handle after the lookup: RespondFailure with
\* ERROR_NO_SUCH_SERVICE and a ServiceUnavailable status when there is no
\* service, and the call passed to the service found otherwise.
InboundDispatch(t) ==
  /\ pc[t] = "in_dispatch"
  /\ LET service == local[t].service
         missing == service = NoService
     IN  inbound' = Append(inbound,
           [name |-> local[t].name,
            via |-> local[t].via,
            found |-> service,
            phase |-> local[t].phase,
            failures |-> IF missing THEN 1 ELSE 0,
            error |-> IF missing THEN "ERROR_NO_SUCH_SERVICE" ELSE "none",
            status |-> IF missing THEN "ServiceUnavailable" ELSE "none",
            handed |-> IF HandsToService(service) THEN 1 ELSE 0,
            handed_to |-> service,
            handed_via |-> IF HandsToService(service) THEN local[t].via
                           ELSE "none"])
  /\ Return(t)
  /\ UNCHANGED <<mutex_scheduled_tasks_, trip, task_vars, socket_vars, rt, rpc_services_, rpc_services_cache_, svc_phase, lifetime_vars,
                 ret, messenger_vars, lock_, acceptors, reactor_vars, svc_stat,
                 latch, calls, history_vars, n_ops>>

\* ---------------------------------------------------------------- acceptor

\* What Acceptor::Start may return.
StartStatuses == {"OK", "NetworkError"}

\* A StartAcceptor that does not test acceptor_.
HasAcceptor_Always(acceptor) == TRUE

\* StartAcceptor(): if (acceptor_)
HasAcceptor(acceptor) == acceptor # NoAcceptor

\* StartAcceptor(): lock_guard; with an acceptor, return acceptor_->Start();
\* without one, return IllegalState.
StartAcceptor(t) ==
  /\ CanStart(t)
  /\ lock_ = NoThread
  /\ n_ops' = n_ops + 1
  /\ IF HasAcceptor(acceptor_)
     THEN \E s \in StartStatuses :
            /\ acceptors' = IF acceptor_ \in DOMAIN acceptors
                            THEN [acceptors EXCEPT ![acceptor_].start = @ + 1]
                            ELSE acceptors
            /\ Returns("StartAcceptor", "none", NoService, s)
     ELSE /\ Returns("StartAcceptor", "none", NoService, "IllegalState")
          /\ UNCHANGED acceptors
  /\ UNCHANGED <<mutex_scheduled_tasks_, trip, task_vars, socket_vars, rt, registry_vars, lifetime_vars, messenger_vars, lock_,
                 reactor_vars, svc_stat, latch, calls, pc, local, history_vars>>

\* ShutdownAcceptor(): { lock_guard; acceptor.swap(acceptor_); }
ShutdownAcceptor(t) ==
  /\ CanStart(t)
  /\ lock_ = NoThread
  /\ n_ops' = n_ops + 1
  /\ acceptor_' = NoAcceptor
  /\ IF acceptor_ # NoAcceptor
     THEN /\ local' = [local EXCEPT ![t].acceptor = acceptor_]
          /\ pc' = [pc EXCEPT ![t] = "sa_shutdown"]
     ELSE UNCHANGED <<pc, local>>
  /\ UNCHANGED <<mutex_scheduled_tasks_, trip, task_vars, socket_vars, rt, registry_vars, lifetime_vars, ret, closing_, lock_,
                 outbound_address_v4_, reactors_, conn_vars, acceptors,
                 reactor_vars, svc_stat, latch, calls, history_vars>>

\* ShutdownAcceptor(): if (acceptor) acceptor->Shutdown();
ShutdownAcceptorShutdown(t) ==
  /\ pc[t] = "sa_shutdown"
  /\ acceptors' = [acceptors EXCEPT ![local[t].acceptor].shutdown = @ + 1]
  /\ Return(t)
  /\ UNCHANGED <<mutex_scheduled_tasks_, trip, task_vars, socket_vars, rt, registry_vars, lifetime_vars, ret, messenger_vars, lock_,
                 reactor_vars, svc_stat, latch, calls, history_vars, n_ops>>

\* ---------------------------------------------------------------- lifetime

\* The state MessengerBuilder::Build has after `new Messenger(*this)`: the
\* reactors are constructed, none is initialized, retain_self_ is set.
BuildInit ==
  /\ closing_ = FALSE
  /\ lock_ = NoThread
  /\ acceptor_ = NoAcceptor
  /\ outbound_address_v4_ = "unspecified"
  /\ reactors_ = [i \in 1..NumReactors |-> i]
  /\ broken_connectivity_ = {}
  /\ has_broken_connectivity_ = FALSE
  /\ acceptors = <<>>
  /\ r_closing = [r \in ReactorIds |-> FALSE]
  /\ r_tasks = [r \in ReactorIds |-> <<>>]
  /\ r_calls = [r \in ReactorIds |-> {}]
  /\ r_dropped = [r \in ReactorIds |-> {}]
  /\ r_stat = [r \in ReactorIds |-> [shutdown |-> 0, join |-> 0]]
  /\ svc_stat = [runs |-> 0, scheduler |-> 0, io_shutdown |-> 0, io_join |-> 0]
  /\ latch = [t \in Threads |-> NoLatch]
  /\ calls = <<>>
  /\ pc = [t \in Threads |-> IF t \in ReactorIds THEN "new" ELSE "idle"]
  /\ local = [t \in Threads |-> NoLocal]
  /\ conn_phase = [a \in Addrs |-> "open"]
  /\ shutdown_returned = {}
  /\ n_ops = 0
  /\ rpc_services_ = [n \in ServiceNames |-> NoService]
  /\ rpc_services_cache_ = [n \in ServiceNames |-> NoService]
  /\ inbound = <<>>
  /\ svc_phase = [n \in ServiceNames |-> "never"]
  /\ retain_self_ = TRUE
  /\ life = "constructed"
  /\ dropper = NoThread
  /\ ret = NoRet
  /\ next_task_id_ = 1
  /\ scheduled_tasks_ = {}
  /\ dtasks = <<>>
  /\ aborts = <<>>
  /\ num_connections_accepted_ = 0
  /\ sockets = <<>>
  /\ mutex_scheduled_tasks_ = NoThread
  /\ trip = NoTrip
  /\ rt = NoRoute

\* Messenger::Init inside MessengerBuilder::Build, one reactor per step:
\*   for (Reactor* r : reactors_) RETURN_NOT_OK(r->Init());
\* Reactor::Init starts the reactor's thread or fails.  When the loop is
\* through, Build returns the shared_ptr whose deleter is
\* AllExternalReferencesDropped; when a reactor fails, Init returns the
\* error and RETURN_NOT_OK leaves Build, which destroys the unique_ptr.
MessengerInit ==
  /\ life = "constructed"
  /\ LET k == CHOOSE i \in DOMAIN reactors_ :
                /\ pc[reactors_[i]] = "new"
                /\ \A j \in 1..(i - 1) : pc[reactors_[j]] # "new"
         last == k = Len(reactors_)
     IN  \E ok \in BOOLEAN :
           IF ok
           THEN /\ pc' = [pc EXCEPT ![reactors_[k]] = "loop"]
                /\ life' = IF last THEN "built" ELSE "constructed"
                /\ IF last
                   THEN Returns("Build", "none", NoService, "OK")
                   ELSE UNCHANGED ret
           ELSE /\ life' = "build_failed"
                /\ UNCHANGED <<pc, ret>>
  /\ UNCHANGED <<mutex_scheduled_tasks_, trip, task_vars, socket_vars, rt, registry_vars, retain_self_, dropper, messenger_vars, lock_,
                 acceptors, reactor_vars, svc_stat, latch, calls, local,
                 history_vars, n_ops>>

\* The last external reference is released while no thread is inside a
\* method: the shared_ptr Build returned runs its deleter, once.
\* AllExternalReferencesDropped(): Shutdown();
AllExternalReferencesDropped(t) ==
  /\ t \in ExtThreads
  /\ life = "built"
  /\ \A u \in ExtThreads : pc[u] = "idle"
  /\ life' = "dropped"
  /\ dropper' = t
  /\ pc' = [pc EXCEPT ![t] = "sd_lock"]
  /\ UNCHANGED <<mutex_scheduled_tasks_, trip, task_vars, socket_vars, rt, registry_vars, retain_self_, ret, messenger_vars, lock_,
                 acceptors, reactor_vars, svc_stat, latch, calls, local,
                 history_vars, n_ops>>

\* AllExternalReferencesDropped(), after Shutdown() returned:
\*   CHECK(retain_self_.get()); retain_self_.reset();
AllExternalReferencesDroppedReset(t) ==
  /\ pc[t] = "aerd_reset"
  /\ IF retain_self_
     THEN /\ retain_self_' = FALSE
          /\ UNCHANGED life
     ELSE /\ life' = "aborted"
          /\ UNCHANGED retain_self_
  /\ pc' = [pc EXCEPT ![t] = "idle"]
  /\ UNCHANGED <<mutex_scheduled_tasks_, trip, task_vars, socket_vars, rt, registry_vars, dropper, ret, messenger_vars, lock_, acceptors,
                 reactor_vars, svc_stat, latch, calls, local, history_vars,
                 n_ops>>

\* Build leaves through RETURN_NOT_OK(messenger->Init()): the unique_ptr
\* that holds the Messenger deletes it.
BuildFailed == life = "build_failed"

\* The last reference to the Messenger is gone: retain_self_ is reset and no
\* reactor thread is left to hold the reference it was given.
LastReferenceGone ==
  /\ life = "dropped"
  /\ ~retain_self_
  /\ \A r \in ReactorIds : pc[r] = "exited"

\* The Messenger is deleted by Build's unique_ptr when Init failed, and
\* otherwise when the last reference to it is gone.
Deleted == BuildFailed \/ LastReferenceGone

\* Messenger::~Messenger: lock_guard; CHECK(closing_); the reactors are
\* deleted.  A failed CHECK aborts the process; after a failed Init, Build
\* returns the error to its caller once the destructor is through.
MessengerDtor ==
  /\ Deleted
  /\ lock_ = NoThread
  /\ IF closing_
     THEN /\ life' = "destroyed"
          /\ IF life = "build_failed"
             THEN Returns("Build", "none", NoService, "RuntimeError")
             ELSE UNCHANGED ret
     ELSE /\ life' = "aborted"
          /\ UNCHANGED ret
  /\ UNCHANGED <<mutex_scheduled_tasks_, trip, task_vars, socket_vars, rt, registry_vars, retain_self_, dropper, messenger_vars, lock_,
                 acceptors, reactor_vars, svc_stat, latch, calls, pc, local,
                 history_vars, n_ops>>

\* ------------------------------------------------------------ specification

ThreadStep(t) ==
  \/ ShutdownLock(t)
  \/ ShutdownLocked(t)
  \/ ShutdownAcceptorStep(t)
  \/ ShutdownReactors(t)
  \/ ShutdownScheduler(t)
  \/ ShutdownIoPool(t)
  \/ ShutdownJoin(t)
  \/ ShutdownIoJoin(t)
  \/ BreakLock(t)
  \/ BreakInsert(t)
  \/ BreakSchedule(t)
  \/ BreakWait(t)
  \/ RestoreLock(t)
  \/ RestoreFlag(t)
  \/ QueueOutboundCallStart(t)
  \/ IsArtificiallyDisconnectedFrom(t)
  \/ QueueOutboundCallAct(t)
  \/ ListenAddress(t)
  \/ ListenAddressListen(t)
  \/ ScheduleOnReactor(t)

ReactorStep(r) ==
  \/ ReactorRunTask(r)
  \/ ReactorExit(r)

Next ==
  \/ \E t \in Threads : ThreadStep(t)
  \/ \E r \in ReactorIds : ReactorStep(r)

Spec == Init /\ [][Next]_vars

\* A thread that is inside a method keeps running (the OS schedules every
\* runnable thread); no thread is obliged to start a new operation.
Continue(t) ==
  \/ pc[t] = "sd_lock" /\ ShutdownLock(t)
  \/ ShutdownLocked(t)
  \/ ShutdownAcceptorStep(t)
  \/ ShutdownReactors(t)
  \/ ShutdownScheduler(t)
  \/ ShutdownIoPool(t)
  \/ ShutdownJoin(t)
  \/ ShutdownIoJoin(t)
  \/ BreakInsert(t)
  \/ BreakSchedule(t)
  \/ BreakWait(t)
  \/ RestoreFlag(t)
  \/ IsArtificiallyDisconnectedFrom(t)
  \/ QueueOutboundCallAct(t)
  \/ ListenAddressListen(t)

FairSpec ==
  /\ Spec
  /\ \A t \in Threads : WF_vars(Continue(t))
  /\ \A r \in ReactorIds : WF_vars(ReactorStep(r))

\* The Messenger from MessengerBuilder::Build to its destruction, used for
\* its services, inbound calls and acceptor.
ServiceThreadStep(t) ==
  \/ ShutdownLock(t)
  \/ ShutdownLocked(t)
  \/ ShutdownAcceptorStep(t)
  \/ ShutdownReactors(t)
  \/ ShutdownScheduler(t)
  \/ ShutdownIoPool(t)
  \/ ShutdownJoin(t)
  \/ ShutdownIoJoin(t)
  \/ ListenAddress(t)
  \/ ListenAddressListen(t)
  \/ StartAcceptor(t)
  \/ ShutdownAcceptor(t)
  \/ ShutdownAcceptorShutdown(t)
  \/ RegisterService(t)
  \/ RegisterServiceCache(t)
  \/ UnregisterService(t)
  \/ UnregisterServiceCache(t)
  \/ UnregisterAllServices(t)
  \/ UnregisterAllServicesCache(t)
  \/ QueueInboundCall(t)
  \/ Handle(t)
  \/ InboundDispatch(t)
  \/ AllExternalReferencesDropped(t)
  \/ AllExternalReferencesDroppedReset(t)

ServiceNext ==
  \/ MessengerInit
  \/ MessengerDtor
  \/ \E t \in ExtThreads : ServiceThreadStep(t)
  \/ \E r \in ReactorIds : ReactorExit(r)

ServiceSpec == BuildInit /\ [][ServiceNext]_vars


\* ------------------------------------------------------------------ claims

CallIds == DOMAIN calls

\* The reactors whose Reactor::QueueOutboundCall received call c.
HandedTo(c) == {r \in ReactorIds : c \in r_calls[r]}

\* The positions of reactor r's queue that hold the failure task of call c.
FailTasks(r, c) ==
  {i \in DOMAIN r_tasks[r] : r_tasks[r][i].type = "fail" /\ r_tasks[r][i].call = c}

FailPending(c) == \E r \in ReactorIds : FailTasks(r, c) # {}

\* The thread that runs the full shutdown sequence is past the locked block.
SequencePcs == ShutdownPcs \ {"sd_lock", "sd_locked"}

EachStepAtMostOnce ==
  /\ svc_stat.runs <= 1
  /\ svc_stat.scheduler <= 1
  /\ svc_stat.io_shutdown <= 1
  /\ svc_stat.io_join <= 1
  /\ \A r \in ReactorIds : r_stat[r].shutdown <= 1 /\ r_stat[r].join <= 1
  /\ \A k \in DOMAIN acceptors : acceptors[k].shutdown <= 1
  /\ \A t \in Threads :
       pc[t] \in SequencePcs \ {"sd_acceptor"} /\ local[t].acceptor # NoAcceptor
         => acceptors[local[t].acceptor].shutdown = 1

EachStepOnce ==
  /\ svc_stat.runs = 1
  /\ svc_stat.scheduler = 1
  /\ svc_stat.io_shutdown = 1
  /\ svc_stat.io_join = 1
  /\ \A r \in ReactorIds : r_stat[r].shutdown = 1 /\ r_stat[r].join = 1

C2_ReturnedMeansJoined ==
  \A t \in shutdown_returned \cap ExtThreads :
    \A r \in ReactorIds : pc[r] = "exited" /\ r_stat[r].join >= 1

\* C3: Shutdown() running inside a task on a reactor thread never waits in
\* Reactor::Join for the thread it is running on.  (Join returns only when
\* the joined thread has exited, and a thread that waits in Join has not
\* exited: such a wait never ends.)
C3_NoSelfJoin ==
  \A r \in ReactorIds :
    ~(pc[r] = "sd_join" /\ local[r].reactors[local[r].i] = r)

\* C4: every call QueueOutboundCall has returned for was either handed to
\* exactly one reactor or gets exactly one Transferred(NetworkError), never
\* both, and never neither: a call that has neither yet still has its failure
\* task waiting in a reactor's queue.
C4_ExactlyOneOutcome ==
  \A c \in CallIds :
    /\ Cardinality(HandedTo(c)) + calls[c].failed <= 1
    /\ Cardinality(HandedTo(c)) + calls[c].failed = 0 => FailPending(c)

\* C5: in every state RemoteToReactor selects, for the (remote, idx) of every
\* call made so far, the reactor it selected when that call was made, whatever
\* ran in between; and what QueueOutboundCall did with the call (handing it
\* over, or scheduling its failure) it did on that reactor.
C5_RoutingStable ==
  \A c \in CallIds :
    /\ calls[c].reactor = RemoteToReactor(calls[c].remote, calls[c].idx)
    /\ HandedTo(c) \subseteq {calls[c].reactor}
    /\ \A r \in ReactorIds : FailTasks(r, c) # {} => r = calls[c].reactor
    /\ \A d \in CallIds :
         calls[d].remote = calls[c].remote /\ calls[d].idx = calls[c].idx
           => calls[d].reactor = calls[c].reactor

\* C5 witness: two calls with the same (remote, idx), the address broken for
\* one of them and not for the other (a BreakConnectivityWith or a
\* RestoreConnectivityWith ran between them), at least one handed over.
C5_Witness ==
  \E c, d \in CallIds :
    /\ c < d
    /\ calls[c].remote = calls[d].remote /\ calls[c].idx = calls[d].idx
    /\ calls[c].disc # calls[d].disc
    /\ HandedTo(c) \cup HandedTo(d) # {}

\* C6: a call whose address was in the unreachable set when
\* QueueOutboundCall checked it is never handed to a reactor and fails with
\* NetworkError: it got its Transferred(NetworkError), or the task delivering
\* it is still queued.
C6_BrokenCallFails ==
  \A c \in CallIds :
    calls[c].disc =>
      /\ HandedTo(c) = {}
      /\ calls[c].failed = 1 \/ FailPending(c)

\* C7: a call made after RestoreConnectivityWith(addr) returned (that
\* followed a BreakConnectivityWith(addr)), with no BreakConnectivityWith(addr)
\* called since, is handed to its reactor and gets no fault-injection
\* failure.
C7_RestoredCallIsHanded ==
  \A c \in CallIds :
    calls[c].clean =>
      /\ HandedTo(c) = {calls[c].reactor}
      /\ ~calls[c].disc
      /\ calls[c].failed = 0
      /\ ~FailPending(c)

\* C7 witness: such a call exists and has been handed over.
C7_Witness ==
  \E c \in CallIds : calls[c].clean /\ HandedTo(c) = {calls[c].reactor}

\* C8 as stated: failing a call to an unreachable address touches no
\* reactor: no reactor's queue ever holds a task for the call and no
\* Transferred of the call runs on a reactor thread.
C8_TouchesNoReactor ==
  \A c \in CallIds :
    calls[c].disc => ~FailPending(c) /\ calls[c].failed_on = 0

\* C8 as amended: a call to an unreachable address is never handed to
\* Reactor::QueueOutboundCall; its failure is one task given to the reactor
\* that RemoteToReactor selected: the task is in no other reactor's queue and
\* at most once in that one, Transferred runs at most once and on that
\* reactor's thread, and not while the task is still queued.  A call to a
\* reachable address has no such task and gets no such failure.
C8_FailsOnItsReactor ==
  \A c \in CallIds :
    IF calls[c].disc
    THEN /\ HandedTo(c) = {}
         /\ \A r \in ReactorIds :
              /\ Cardinality(FailTasks(r, c)) <= 1
              /\ FailTasks(r, c) # {} => r = calls[c].reactor
         /\ calls[c].failed <= 1
         /\ calls[c].failed = 1 <=> calls[c].failed_on = calls[c].reactor
         /\ calls[c].failed = 0 <=> calls[c].failed_on = 0
         /\ ~(calls[c].failed = 1 /\ FailPending(c))
    ELSE ~FailPending(c) /\ calls[c].failed = 0

\* C8 witness: a call to an unreachable address got its failure on the
\* thread of the reactor selected for it.
C8_Witness ==
  \E c \in CallIds :
    calls[c].disc /\ calls[c].failed = 1 /\ calls[c].failed_on = calls[c].reactor

\* C9: once a BreakConnectivityWith(addr) has returned (and no
\* RestoreConnectivityWith(addr) was called meanwhile), every reactor has
\* executed DropWithRemoteAddress(addr).
C9_ReturnedMeansDropped ==
  \A a \in Addrs :
    conn_phase[a] = "sealed" => \A r \in ReactorIds : a \in r_dropped[r]

\* C10: no call is handed to a reactor while its address is sealed, that
\* is after a BreakConnectivityWith(addr) returned and before any
\* RestoreConnectivityWith(addr) is called.
C10_NothingHandedWhileSealed ==
  \A c \in CallIds : HandedTo(c) # {} => ~calls[c].sealed

\* A step in which `op` returns a status to its caller.
Returned(op) == ret'.n # ret.n /\ ret'.op = op

\* A step in which thread t enters the method whose next position is `to`.
Enters(t, to) == pc[t] = "idle" /\ pc'[t] = to

\* C11: RegisterService(name, handler) on a name that is registered returns
\* AlreadyPresent and changes neither the registry nor the snapshot; on a
\* name that is absent it inserts, and it returns OK with name bound to
\* handler in the registry and in the snapshot.
C11_RegisterService ==
  [][/\ Returned("RegisterService") => ret'.status \in {"OK", "AlreadyPresent"}
     /\ Returned("RegisterService") /\ ret'.status = "AlreadyPresent" =>
          /\ rpc_services_[ret'.name] # NoService
          /\ rpc_services_' = rpc_services_
          /\ rpc_services_cache_' = rpc_services_cache_
     /\ \A t \in Threads : Enters(t, "reg_cache") =>
          /\ rpc_services_[local'[t].name] = NoService
          /\ rpc_services_' =
               [rpc_services_ EXCEPT ![local'[t].name] = local'[t].service]
     /\ \A t \in Threads : pc[t] = "reg_cache" /\ pc'[t] # "reg_cache" =>
          /\ Returned("RegisterService") /\ ret'.status = "OK"
          /\ ret'.name = local[t].name /\ ret'.handler = local[t].service
     /\ Returned("RegisterService") /\ ret'.status = "OK" =>
          /\ rpc_services_'[ret'.name] = ret'.handler
          /\ rpc_services_cache_'[ret'.name] = ret'.handler]_vars

\* C11 witness: a second registration of a name, with another handler, was
\* refused and the first handler is still the one published.
C11_Witness ==
  /\ ret.op = "RegisterService" /\ ret.status = "AlreadyPresent"
  /\ rpc_services_cache_[ret.name] \in Handlers \ {ret.handler}
  /\ svc_phase[ret.name] = rpc_services_cache_[ret.name]

\* C12: UnregisterService(name) on a name that is not registered returns
\* ServiceUnavailable and changes neither the registry nor the snapshot; on
\* a registered name it removes that entry and no other, from the registry
\* and from the snapshot, and returns OK.
C12_UnregisterService ==
  [][/\ Returned("UnregisterService") =>
          ret'.status \in {"OK", "ServiceUnavailable"}
     /\ Returned("UnregisterService") /\ ret'.status = "ServiceUnavailable" =>
          /\ rpc_services_[ret'.name] = NoService
          /\ rpc_services_' = rpc_services_
          /\ rpc_services_cache_' = rpc_services_cache_
     /\ \A t \in Threads : Enters(t, "unreg_cache") =>
          /\ rpc_services_[local'[t].name] # NoService
          /\ rpc_services_' =
               [rpc_services_ EXCEPT ![local'[t].name] = NoService]
     /\ \A t \in Threads : pc[t] = "unreg_cache" /\ pc'[t] # "unreg_cache" =>
          /\ Returned("UnregisterService") /\ ret'.status = "OK"
          /\ ret'.name = local[t].name
     /\ Returned("UnregisterService") /\ ret'.status = "OK" =>
          /\ rpc_services_' = rpc_services_
          /\ rpc_services_cache_' =
               [rpc_services_cache_ EXCEPT ![ret'.name] = NoService]
          /\ rpc_services_cache_' = rpc_services_']_vars

\* C12 witness: one of two registered services was unregistered and the
\* other one is still registered and published.
C12_Witness ==
  /\ ret.op = "UnregisterService" /\ ret.status = "OK"
  /\ rpc_services_cache_[ret.name] = NoService
  /\ \E n \in ServiceNames \ {ret.name} :
       rpc_services_[n] # NoService /\ rpc_services_cache_[n] = rpc_services_[n]

\* C13: a call dispatched by QueueInboundCall or Handle whose service name
\* is absent from the snapshot gets one RespondFailure (ServiceUnavailable,
\* ERROR_NO_SUCH_SERVICE) and reaches no service; one whose name is present
\* is passed, by the same entry point, to the handler the snapshot holds and
\* gets no response from the Messenger.
C13_DispatchByName ==
  \A i \in DOMAIN inbound :
    LET c == inbound[i]
    IN  IF c.found = NoService
        THEN /\ c.failures = 1
             /\ c.error = "ERROR_NO_SUCH_SERVICE"
             /\ c.status = "ServiceUnavailable"
             /\ c.handed = 0
        ELSE /\ c.failures = 0
             /\ c.handed = 1
             /\ c.handed_to = c.found
             /\ c.handed_via = c.via

\* C13 witness: one call failed for want of a service and one was passed to
\* a handler, one of them through QueueInboundCall and one through Handle.
C13_Witness ==
  \E i, j \in DOMAIN inbound :
    /\ inbound[i].found = NoService /\ inbound[i].failures = 1
    /\ inbound[j].found \in Handlers /\ inbound[j].handed = 1
    /\ inbound[i].via # inbound[j].via

\* C14: a call that begins after RegisterService(name, h) returned OK and
\* before any unregistration of name reaches h; a call that begins after
\* UnregisterService(name) or UnregisterAllServices() returned and before
\* any new registration of name fails with ServiceUnavailable.
C14_RegistryVisibleAtOnce ==
  \A i \in DOMAIN inbound :
    LET c == inbound[i]
    IN  /\ c.phase \in Handlers =>
             c.handed = 1 /\ c.handed_to = c.phase /\ c.failures = 0
        /\ c.phase = "unregistered" =>
             c.failures = 1 /\ c.status = "ServiceUnavailable" /\ c.handed = 0

\* C14 witness: a call to a service begun after that service was registered
\* and then unregistered again.
C14_Witness ==
  \E i \in DOMAIN inbound :
    /\ inbound[i].phase = "unregistered"
    /\ ret.op = "UnregisterService" /\ ret.status = "OK"
    /\ ret.name = inbound[i].name

\* C15: once a Shutdown() call has returned, a RegisterService call fails
\* with IllegalState and inserts nothing: no call enters the insertion and
\* none returns AlreadyPresent or OK.
C15_RegisterFailsAfterShutdown ==
  [][shutdown_returned # {} =>
       /\ \A t \in Threads : ~Enters(t, "reg_cache")
       /\ Returned("RegisterService") /\ pc' = pc =>
            ret'.status = "IllegalState"]_vars

\* C16: once closing_ is set, a ListenAddress call fails with IllegalState:
\* it creates no Acceptor and does not go on to Acceptor::Listen.
C16_ListenFailsWhenClosing ==
  [][closing_ =>
       /\ Len(acceptors') = Len(acceptors)
       /\ \A t \in Threads : ~Enters(t, "la_listen")]_vars

\* C17: once a Shutdown() call has returned, StartAcceptor returns
\* IllegalState and starts no acceptor, whatever was called since.
C17_StartFailsAfterShutdown ==
  [][shutdown_returned # {} /\ Returned("StartAcceptor") =>
       ret'.status = "IllegalState" /\ acceptors' = acceptors]_vars

\* C18: StartAcceptor returns IllegalState and starts nothing when
\* acceptor_ is null (no ListenAddress yet, or the acceptor was detached);
\* with an acceptor it calls Acceptor::Start on it, once, and returns the
\* status of that call.
C18_StartNeedsAcceptor ==
  [][Returned("StartAcceptor") =>
       IF acceptor_ = NoAcceptor
       THEN ret'.status = "IllegalState" /\ acceptors' = acceptors
       ELSE /\ ret'.status \in StartStatuses
            /\ acceptors' = [acceptors EXCEPT ![acceptor_].start = @ + 1]]_vars

\* C18 witness: StartAcceptor was refused on a running Messenger whose
\* acceptor, created by ListenAddress, had been detached by ShutdownAcceptor.
C18_Witness ==
  /\ ret.op = "StartAcceptor" /\ ret.status = "IllegalState"
  /\ ~closing_
  /\ acceptors # <<>>
  /\ acceptor_ = NoAcceptor

\* C19: when Reactor::Init fails during Build, Build returns the error, the
\* reactors initialized before are shut down, and the Messenger is destroyed
\* without a failed CHECK.
C19_BuildFailureUnwinds ==
  /\ life # "aborted"
  /\ ret.op = "Build" /\ ret.status # "OK" =>
       life = "destroyed" /\ \A r \in ReactorIds : pc[r] # "loop"

\* C20: retain_self_ is set until AllExternalReferencesDropped resets it,
\* AllExternalReferencesDropped runs at most once and resets retain_self_
\* only after its Shutdown() call returned, and the destructor never runs
\* while closing_ is false.
C20_SelfReference ==
  /\ [](~retain_self_ => dropper # NoThread /\ dropper \in shutdown_returned)
  /\ [][dropper # NoThread => dropper' = dropper]_vars
  /\ [][retain_self_ /\ ~retain_self_' =>
          pc[dropper] = "aerd_reset" /\ dropper \in shutdown_returned]_vars
  /\ [](life \in {"destroyed", "aborted"} => closing_)

\* How often Reactor::Shutdown / Reactor::Join ran on the reactors before
\* position i of the list `rs`, and on those from position i on.
DoneUpTo(rs, i, field) ==
  /\ \A k \in 1..(i - 1) : r_stat[rs[k]][field] = 1
  /\ \A k \in i..Len(rs) : r_stat[rs[k]][field] = 0

DoneOnAll(field, n) == \A r \in ReactorIds : r_stat[r][field] = n

\* C26: the steps of the one shutdown sequence come in this order: closing_
\* is set (under lock_), the acceptor is shut down, Reactor::Shutdown runs
\* on every reactor, the scheduler and then the IO thread pool are shut
\* down, the reactors are joined, and the IO thread pool is joined last.
C26_ShutdownOrder ==
  /\ \A t \in Threads :
       LET acc == local[t].acceptor
           rs == local[t].reactors
           acceptor_done == acc # NoAcceptor => acceptors[acc].shutdown = 1
       IN  /\ pc[t] \in SequencePcs => closing_ /\ svc_stat.runs = 1
           /\ pc[t] = "sd_acceptor" =>
                /\ acceptors[acc].shutdown = 0
                /\ DoneOnAll("shutdown", 0) /\ DoneOnAll("join", 0)
                /\ svc_stat.scheduler = 0 /\ svc_stat.io_shutdown = 0
                /\ svc_stat.io_join = 0
           /\ pc[t] = "sd_reactors" =>
                /\ acceptor_done
                /\ DoneUpTo(rs, local[t].i, "shutdown") /\ DoneOnAll("join", 0)
                /\ svc_stat.scheduler = 0 /\ svc_stat.io_shutdown = 0
                /\ svc_stat.io_join = 0
           /\ pc[t] = "sd_scheduler" =>
                /\ acceptor_done
                /\ DoneOnAll("shutdown", 1) /\ DoneOnAll("join", 0)
                /\ svc_stat.scheduler = 0 /\ svc_stat.io_shutdown = 0
                /\ svc_stat.io_join = 0
           /\ pc[t] = "sd_iopool" =>
                /\ acceptor_done
                /\ DoneOnAll("shutdown", 1) /\ DoneOnAll("join", 0)
                /\ svc_stat.scheduler = 1 /\ svc_stat.io_shutdown = 0
                /\ svc_stat.io_join = 0
           /\ pc[t] = "sd_join" =>
                /\ acceptor_done
                /\ DoneOnAll("shutdown", 1) /\ DoneUpTo(rs, local[t].i, "join")
                /\ svc_stat.scheduler = 1 /\ svc_stat.io_shutdown = 1
                /\ svc_stat.io_join = 0
           /\ pc[t] = "sd_iojoin" =>
                /\ acceptor_done
                /\ DoneOnAll("shutdown", 1) /\ DoneOnAll("join", 1)
                /\ svc_stat.scheduler = 1 /\ svc_stat.io_shutdown = 1
                /\ svc_stat.io_join = 0
  /\ (\A t \in Threads : pc[t] \notin SequencePcs) =>
       \/ /\ DoneOnAll("shutdown", 0) /\ DoneOnAll("join", 0)
          /\ svc_stat.scheduler = 0 /\ svc_stat.io_shutdown = 0
          /\ svc_stat.io_join = 0
          /\ closing_ => \E t \in Threads : pc[t] = "sd_locked"
       \/ /\ closing_
          /\ DoneOnAll("shutdown", 1) /\ DoneOnAll("join", 1)
          /\ svc_stat.scheduler = 1 /\ svc_stat.io_shutdown = 1
          /\ svc_stat.io_join = 1

\* C26 witness: a shutdown that had an acceptor to shut down is at the
\* join of its last reactor.
C26_Witness ==
  \E t \in Threads :
    /\ pc[t] = "sd_join"
    /\ local[t].acceptor # NoAcceptor
    /\ local[t].i = Len(local[t].reactors)

\* C27: whenever no thread holds lock_, the published snapshot has exactly
\* the entries of the service registry.
C27_SnapshotMatchesRegistry ==
  lock_ = NoThread => rpc_services_cache_ = rpc_services_

\* C29: reactors_ is the list of the configured reactors, in order, from
\* construction to destruction.
C29_ReactorListFixed == reactors_ = [i \in 1..NumReactors |-> i]

\* C29 witness: a Messenger that was built, shut down and destroyed.
C29_Witness ==
  /\ life = "destroyed"
  /\ svc_stat.io_join = 1
  /\ Len(reactors_) = NumReactors

\* C30: the thread that runs the shutdown sequence does not hold lock_
\* while it shuts down the acceptor, the reactors, the scheduler and the IO
\* pool, nor while it joins.
C30_NoLockWhileJoining ==
  \A t \in Threads : pc[t] \in SequencePcs => lock_ # t

\* C30 witness: while one thread waits in a join, another one holds lock_
\* inside RegisterService.
C30_Witness ==
  \E t, u \in Threads :
    /\ pc[t] = "sd_join"
    /\ pc[u] = "reg_cache"
    /\ lock_ = u

\* ------------------------------------------- RemoteToReactor as a function

\* Reactor counts the function is applied to.
MaxN == 4

\* 32-bit hashes and connection indexes the function is applied to: small
\* ones, ones whose low half carries, and ones whose sum passes 2^32.
HashSamples == {<<0, 0>>, <<0, 7>>, <<0, Half - 1>>, <<Half \div 2, 0>>,
                <<Half - 1, Half - 2>>, <<Half - 1, Half - 1>>}
IdxSamples == {<<0, 0>>, <<0, 1>>, <<0, 2>>, <<0, Half - 1>>,
               <<Half \div 2, 1>>, <<Half - 1, Half - 1>>}

NotApplied == -1

\* Every variable but rt.
but_rt == <<closing_, lock_, acceptor_, outbound_address_v4_, reactors_,
            broken_connectivity_, has_broken_connectivity_, acceptors,
            r_closing, r_tasks, r_calls, r_dropped, r_stat, svc_stat, latch,
            calls, pc, local, conn_phase, shutdown_returned, n_ops,
            rpc_services_, rpc_services_cache_, inbound, svc_phase,
            retain_self_, life, dropper, ret, task_vars, socket_vars,
            mutex_scheduled_tasks_, trip>>

\* A hash, a connection index and a reactor count, RemoteToReactor not yet
\* applied to them.
RouteInit ==
  /\ Built
  /\ \E h \in HashSamples, idx \in IdxSamples, n \in 1..MaxN :
       rt = [h |-> h, idx |-> idx, n |-> n, index |-> NotApplied]

\* int reactor_idx = (hashCode + idx) % reactors_.size();
RemoteToReactorApply ==
  /\ rt.index = NotApplied
  /\ rt' = [rt EXCEPT !.index = ReactorIndex(rt.h, rt.idx, rt.n)]
  /\ UNCHANGED but_rt

RouteNext == RemoteToReactorApply

RouteSpec == RouteInit /\ [][RouteNext]_vars

\* (x + y) mod n for the mathematical sum of two 32-bit numbers.
SumMod(x, y, n) ==
  ((((x[1] + y[1]) % n) * (Half % n)) + ((x[2] + y[2]) % n)) % n

\* The mathematical sum of two 32-bit numbers is 2^32 or more.
Carries(x, y) == x[1] + y[1] + ((x[2] + y[2]) \div Half) >= Half

\* 2^32 mod n.
Pow32Mod(n) == ((Half % n) * (Half % n)) % n

\* ((x + y) mod 2^32) mod n.
WrappedSumMod(x, y, n) ==
  IF Carries(x, y) THEN (SumMod(x, y, n) + n - Pow32Mod(n)) % n
  ELSE SumMod(x, y, n)

\* C28: for every 32-bit hash h, every 32-bit connection index idx and
\* every reactor count N >= 1, RemoteToReactor selects the index
\* (h + idx) mod N of the mathematical sum, and the index is within [0, N).
C28_MathematicalSum ==
  rt.index # NotApplied =>
    /\ rt.index = SumMod(rt.h, rt.idx, rt.n)
    /\ rt.index >= 0 /\ rt.index < rt.n

\* C28 as the code has it: the index is ((h + idx) mod 2^32) mod N, and it
\* is within [0, N).
C28_WrappedSum ==
  rt.index # NotApplied =>
    /\ rt.index = WrappedSumMod(rt.h, rt.idx, rt.n)
    /\ rt.index >= 0 /\ rt.index < rt.n

\* C28 witness: the function applied to a hash and an index whose sum
\* passes 2^32, with a result other than that of the mathematical sum.
C28_Witness ==
  /\ rt.index # NotApplied
  /\ Carries(rt.h, rt.idx)
  /\ rt.index # SumMod(rt.h, rt.idx, rt.n)

\* ------------------------------------------------- inbound socket routing

\* The Messenger used for inbound sockets while addresses are broken and
\* restored.
SocketThreadStep(t) ==
  \/ BreakLock(t)
  \/ BreakInsert(t)
  \/ BreakSchedule(t)
  \/ BreakWait(t)
  \/ RestoreLock(t)
  \/ RestoreFlag(t)
  \/ RegisterInboundSocketStart(t)
  \/ RegisterInboundSocketLookup(t)
  \/ RegisterInboundSocketAct(t)
  \/ RegisterInboundSocketHand(t)

SocketNext ==
  \/ \E t \in ExtThreads : SocketThreadStep(t)
  \/ \E r \in ReactorIds : ReactorRunTask(r)

SocketSpec == Init /\ [][SocketNext]_vars

SocketIds == DOMAIN sockets
Accepted == {k \in SocketIds : ~sockets[k].closed}

\* C24: a socket whose remote address is marked unreachable (it is in the
\* set when the check is decided; in particular when a break of it had
\* returned before the call and no restore was called during the call) is
\* closed and handed to no reactor; any other socket is not closed and is
\* handed to exactly one reactor of the Messenger.  The counter has advanced
\* by exactly one for each accepted socket and not at all for a closed one.
C24_RejectOrAccept ==
  /\ \A k \in SocketIds :
       LET so == sockets[k]
       IN  /\ so.sealed => so.marked
           /\ so.marked => so.closed /\ so.handed = {}
           /\ ~so.marked =>
                /\ ~so.closed
                /\ Cardinality(so.handed) = 1
                /\ so.handed \subseteq {reactors_[i] : i \in DOMAIN reactors_}
  /\ num_connections_accepted_ =
       Cardinality(Accepted) + Cardinality({t \in Threads : pc[t] = "ri_hand"})
  /\ \A k, m \in Accepted : k # m => sockets[k].counter # sockets[m].counter

\* C24 witness: one socket was closed for a sealed address and another one
\* was handed to a reactor.
C24_Witness ==
  \E k, m \in SocketIds :
    /\ sockets[k].sealed /\ sockets[k].closed
    /\ ~sockets[m].closed /\ sockets[m].handed # {}
    /\ num_connections_accepted_ = 1

\* The reactor an accepted socket was handed to, as an index of reactors_.
HandedIndex(k) ==
  CHOOSE i \in 0..(Len(reactors_) - 1) : reactors_[i + 1] \in sockets[k].handed

\* C25: the reactor of an accepted socket is the one whose index is the
\* accept counter modulo the connections-per-remote limit, modulo the
\* number of reactors.
C25_CounterOnly ==
  \A k \in Accepted :
    HandedIndex(k) =
      (sockets[k].counter % NumConnectionsToServer) % Len(reactors_)

\* C25 as the code has it: the index is the 32-bit sum of the hash of the
\* remote and (counter modulo the limit), modulo the number of reactors.
C25_HashPlusCounter ==
  \A k \in Accepted :
    HandedIndex(k) =
      WrappedSumMod(hash_value(sockets[k].remote),
                    U32(sockets[k].counter % NumConnectionsToServer),
                    Len(reactors_))

\* C25 witness: a socket accepted at a counter value that is not a multiple
\* of the limit, from a remote whose hash plus that value passes 2^32, at a
\* reactor other than the one the counter alone gives.
C25_Witness ==
  \E k \in Accepted :
    LET idx == sockets[k].counter % NumConnectionsToServer
    IN  /\ idx # 0
        /\ Carries(hash_value(sockets[k].remote), U32(idx))
        /\ HandedIndex(k) # idx % Len(reactors_)

\* ---------------------------------------------------------- delayed tasks

TaskIds == DOMAIN dtasks

\* std::map<int64_t, shared_ptr<DelayedTask>> scheduled_tasks_, kept as the
\* set of its <<id, task>> entries.

\* An insertion that is not made.
MapPut_Skipped(m, id, k) == m

\* scheduled_tasks_[task_id] = task
MapPut(m, id, k) == {e \in m : e[1] # id} \cup {<<id, k>>}

\* An erase that empties the map.
MapErase_All(m, id) == {}

\* scheduled_tasks_.erase(id)
MapErase(m, id) == {e \in m : e[1] # id}

\* A lookup that finds nothing.
MapFind_Nothing(m, id) == {}

\* scheduled_tasks_.find(task_id): the tasks found, none or one.
MapFind(m, id) == {e[2] : e \in {x \in m : x[1] = id}}

\* A counter that hands out the same value again.
NextTaskId_Stuck(n) == n

\* next_task_id_.fetch_add(1): the counter after the addition.
NextTaskId(n) == n + 1

\* Reactor::IsCurrentThread(): the calling thread is the reactor's thread.
IsCurrentThread(r, t) == r = t

\* Any reactor, whoever calls.
ChooseReactor_AlwaysRandom(t) == {reactors_[k] : k \in DOMAIN reactors_}

\* ScheduleOnReactor:
\*   for (Reactor* r : reactors_) if (r->IsCurrentThread()) chosen = r;
\*   if (chosen == nullptr) chosen = reactors_[rand() % reactors_.size()];
\* the reactors the call may choose.
ChooseReactor(t) ==
  LET current == {k \in DOMAIN reactors_ : IsCurrentThread(reactors_[k], t)}
  IN  IF current # {}
      THEN {reactors_[CHOOSE k \in current : \A j \in current : j <= k]}
      ELSE {reactors_[k] : k \in DOMAIN reactors_}

\* A DelayedTask that is neither done nor aborted.
PendingStates == {"made", "queued", "armed"}

\* std::make_shared<DelayedTask>(func, when, task_id, msgr); the history
\* fields note who made it and what was done with it since.
NewTask(t) ==
  [id |-> local[t].id, owner |-> local[t].owner, caller |-> t,
   chosen |-> local[t].reactor, state |-> "made", ran |-> 0, aborted |-> 0,
   abort_pending |-> FALSE, registered |-> FALSE, handed |-> {},
   returned |-> FALSE]

\* A thread that may call ScheduleOnReactor: an external thread, or a
\* reactor thread from inside the function of a task it is running.
CanSchedule(t) ==
  /\ n_ops < MaxOps
  /\ life = "built"
  /\ \/ t \in ExtThreads /\ pc[t] = "idle"
     \/ t \in ReactorIds /\ pc[t] = "in_func"

\* ScheduleOnReactor(func, when, msgr): the choice of the reactor.
ScheduleOnReactorChoose(t) ==
  /\ CanSchedule(t)
  /\ \E owner \in BOOLEAN, chosen \in ChooseReactor(t) :
       local' = [local EXCEPT ![t] =
                   [NoLocal EXCEPT !.owner = owner, !.reactor = chosen]]
  /\ pc' = [pc EXCEPT ![t] = "so_id"]
  /\ n_ops' = n_ops + 1
  /\ UNCHANGED <<mutex_scheduled_tasks_, trip, task_vars, socket_vars, rt, registry_vars, lifetime_vars, ret,
                 messenger_vars, lock_, acceptors, reactor_vars, svc_stat, latch,
                 calls, history_vars>>

\* ScheduleOnReactor:
\*   int64_t task_id = 0;
\*   if (msgr != nullptr) task_id = next_task_id_.fetch_add(1);
ScheduleOnReactorId(t) ==
  /\ pc[t] = "so_id"
  /\ local' = [local EXCEPT ![t].id = IF local[t].owner THEN next_task_id_ ELSE 0]
  /\ next_task_id_' = IF local[t].owner THEN NextTaskId(next_task_id_)
                      ELSE next_task_id_
  /\ pc' = [pc EXCEPT ![t] = "so_make"]
  /\ UNCHANGED <<mutex_scheduled_tasks_, trip, scheduled_tasks_, dtasks, aborts, socket_vars, rt,
                 registry_vars, lifetime_vars, ret, messenger_vars, lock_,
                 acceptors, reactor_vars, svc_stat, latch, calls, history_vars,
                 n_ops>>

\* ScheduleOnReactor:
\*   auto task = std::make_shared<DelayedTask>(func, when, task_id, msgr);
\*   if (msgr != nullptr) { lock_guard(mutex_scheduled_tasks_);
\*                          scheduled_tasks_[task_id] = task; }
ScheduleOnReactorRegister(t) ==
  /\ pc[t] = "so_make"
  /\ local[t].owner => mutex_scheduled_tasks_ = NoThread
  /\ LET k == Len(dtasks) + 1
     IN  /\ dtasks' = Append(dtasks,
                        [NewTask(t) EXCEPT !.registered = local[t].owner])
         /\ scheduled_tasks_' = IF local[t].owner
                                THEN MapPut(scheduled_tasks_, local[t].id, k)
                                ELSE scheduled_tasks_
         /\ local' = [local EXCEPT ![t].task = k]
  /\ pc' = [pc EXCEPT ![t] = "so_sched"]
  /\ UNCHANGED <<mutex_scheduled_tasks_, trip, next_task_id_, aborts, socket_vars, rt, registry_vars,
                 lifetime_vars, ret, messenger_vars, lock_, acceptors,
                 reactor_vars, svc_stat, latch, calls, history_vars, n_ops>>

\* ScheduleOnReactor: chosen->ScheduleReactorTask(task); return task_id;
ScheduleOnReactorSchedule(t) ==
  /\ pc[t] = "so_sched"
  /\ LET k == local[t].task
         r == local[t].reactor
     IN  /\ r_tasks' = ScheduleReactorTask(r_tasks, r,
                         [type |-> "timer", addr |-> "none", owner |-> t,
                          call |-> k])
         /\ dtasks' = [dtasks EXCEPT
                         ![k].handed = @ \cup {r},
                         ![k].returned = TRUE,
                         ![k].state = IF @ = "made" THEN "queued" ELSE @]
  /\ Return(t)
  /\ UNCHANGED <<mutex_scheduled_tasks_, trip, next_task_id_, scheduled_tasks_, aborts, socket_vars, rt,
                 registry_vars, lifetime_vars, ret, messenger_vars, lock_,
                 acceptors, r_closing, r_calls, r_dropped, r_stat, svc_stat,
                 latch, calls, history_vars, n_ops>>

\* DelayedTask::Run on the reactor thread: a task that is still pending
\* arms its timer; a task aborted meanwhile does nothing.
DelayedTaskRun(r) ==
  /\ pc[r] = "loop"
  /\ life = "built"
  /\ r_tasks[r] # <<>>
  /\ Head(r_tasks[r]).type = "timer"
  /\ LET k == Head(r_tasks[r]).call
     IN  dtasks' = [dtasks EXCEPT
                      ![k].state = IF @ = "queued" THEN "armed" ELSE @]
  /\ r_tasks' = [r_tasks EXCEPT ![r] = Tail(@)]
  /\ UNCHANGED <<mutex_scheduled_tasks_, trip, next_task_id_, scheduled_tasks_, aborts, socket_vars, rt,
                 registry_vars, lifetime_vars, ret, messenger_vars, lock_,
                 acceptors, r_closing, r_calls, r_dropped, r_stat, svc_stat,
                 latch, calls, pc, local, history_vars, n_ops>>

\* The delay of an armed task elapses on its reactor: the task is marked
\* done, so that it can no longer be aborted.
TimerFires(r) ==
  /\ pc[r] = "loop"
  /\ life = "built"
  /\ \E k \in TaskIds :
       /\ dtasks[k].chosen = r
       /\ dtasks[k].state = "armed"
       /\ dtasks' = [dtasks EXCEPT ![k].state = "firing"]
       /\ local' = [local EXCEPT ![r].task = k]
  /\ pc' = [pc EXCEPT ![r] = "tm_remove"]
  /\ UNCHANGED <<mutex_scheduled_tasks_, trip, next_task_id_, scheduled_tasks_, aborts, socket_vars, rt,
                 registry_vars, lifetime_vars, ret, messenger_vars, lock_,
                 acceptors, reactor_vars, svc_stat, latch, calls, history_vars,
                 n_ops>>

\* Messenger::RemoveScheduledTask(id), called by the firing task when it has
\* an owner:  CHECK_NE(id, -1); lock_guard(mutex_scheduled_tasks_);
\*            scheduled_tasks_.erase(id);
RemoveScheduledTask(r) ==
  /\ pc[r] = "tm_remove"
  /\ dtasks[local[r].task].owner => mutex_scheduled_tasks_ = NoThread
  /\ LET k == local[r].task
     IN  scheduled_tasks_' = IF dtasks[k].owner
                             THEN MapErase(scheduled_tasks_, dtasks[k].id)
                             ELSE scheduled_tasks_
  /\ pc' = [pc EXCEPT ![r] = "tm_func"]
  /\ UNCHANGED <<mutex_scheduled_tasks_, trip, next_task_id_, dtasks, aborts, socket_vars, rt, registry_vars,
                 lifetime_vars, ret, messenger_vars, lock_, acceptors,
                 reactor_vars, svc_stat, latch, calls, local, history_vars,
                 n_ops>>

\* The firing task calls its function with an OK status: the task body runs.
TimerFunc(r) ==
  /\ pc[r] = "tm_func"
  /\ dtasks' = [dtasks EXCEPT ![local[r].task].state = "fired",
                              ![local[r].task].ran = @ + 1]
  /\ pc' = [pc EXCEPT ![r] = "in_func"]
  /\ UNCHANGED <<mutex_scheduled_tasks_, trip, next_task_id_, scheduled_tasks_, aborts, socket_vars, rt,
                 registry_vars, lifetime_vars, ret, messenger_vars, lock_,
                 acceptors, reactor_vars, svc_stat, latch, calls, local,
                 history_vars, n_ops>>

\* The function of the task returns without scheduling anything.
FuncReturns(r) ==
  /\ pc[r] = "in_func"
  /\ Return(r)
  /\ UNCHANGED <<mutex_scheduled_tasks_, trip, task_vars, socket_vars, rt, registry_vars, lifetime_vars, ret,
                 messenger_vars, lock_, acceptors, reactor_vars, svc_stat, latch,
                 calls, history_vars, n_ops>>

\* An abort that leaves the task as it is.
AbortTask_Ignored(task) == task

\* DelayedTask::AbortTask(status): a task that is still pending is marked
\* done and its function is called with the Aborted status; a task that is
\* done already is left alone.
AbortTask(task) ==
  IF task.state \in PendingStates
  THEN [task EXCEPT !.state = "aborted", !.aborted = @ + 1]
  ELSE task

\* The ids AbortOnReactor is called with: -1, 0, every id ScheduleOnReactor
\* can have returned, and one more.
AbortIds == (0 - 1)..(MaxOps + 1)

\* Messenger::AbortOnReactor(task_id):
\*   CHECK_NE(task_id, -1);
\*   lock_guard(mutex_scheduled_tasks_);
\*   auto iter = scheduled_tasks_.find(task_id);
\*   if (iter != end) { iter->second->AbortTask(Aborted);
\*                      scheduled_tasks_.erase(iter); }
\* A failed CHECK ends the process.  History: each call is noted with what
\* it found, and a task notes that its id was passed while it was pending.
AbortOnReactor(t) ==
  /\ CanStart(t)
  /\ mutex_scheduled_tasks_ = NoThread
  /\ n_ops' = n_ops + 1
  /\ \E id \in AbortIds :
       LET found == MapFind(scheduled_tasks_, id)
           check == id # 0 - 1
       IN  /\ life' = IF check THEN life ELSE "aborted"
           /\ dtasks' =
                [k \in TaskIds |->
                   [(IF check /\ k \in found THEN AbortTask(dtasks[k])
                     ELSE dtasks[k])
                    EXCEPT !.abort_pending =
                             @ \/ /\ dtasks[k].owner
                                  /\ dtasks[k].id = id
                                  /\ dtasks[k].state \in PendingStates]]
           /\ scheduled_tasks_' = IF check THEN MapErase(scheduled_tasks_, id)
                                  ELSE scheduled_tasks_
           /\ aborts' = Append(aborts,
                          [id |-> id, found |-> found # {}, returned |-> check,
                           ran |-> \E k \in TaskIds :
                                     dtasks[k].id = id /\ dtasks[k].ran > 0])
  /\ UNCHANGED <<mutex_scheduled_tasks_, trip, next_task_id_, socket_vars, rt, registry_vars, retain_self_,
                 dropper, ret, messenger_vars, lock_, acceptors, reactor_vars,
                 svc_stat, latch, calls, pc, local, history_vars>>

TaskThreadStep(t) ==
  \/ ScheduleOnReactorChoose(t)
  \/ ScheduleOnReactorId(t)
  \/ ScheduleOnReactorRegister(t)
  \/ ScheduleOnReactorSchedule(t)
  \/ AbortOnReactor(t)

TaskReactorStep(r) ==
  \/ DelayedTaskRun(r)
  \/ TimerFires(r)
  \/ RemoveScheduledTask(r)
  \/ TimerFunc(r)
  \/ FuncReturns(r)

TaskNext ==
  \/ \E t \in Threads : TaskThreadStep(t)
  \/ \E r \in ReactorIds : TaskReactorStep(r)

TaskSpec == Init /\ [][TaskNext]_vars

\* The ids of the tasks made with an owner.
OwnedTasks == {k \in TaskIds : dtasks[k].owner}

\* C22: the ids of the tasks scheduled with an owner differ from one
\* another, and each such task is registered under its id in the
\* scheduled-task map, where it stays while it is pending; a task scheduled
\* without an owner has the id 0, has no entry in the map, and its call
\* does not advance the id counter.
C22_UniqueIds ==
  /\ \A k, m \in OwnedTasks : k # m => dtasks[k].id # dtasks[m].id
  /\ \A k \in OwnedTasks :
       /\ dtasks[k].id # 0
       /\ dtasks[k].registered
       /\ dtasks[k].state \in PendingStates =>
            <<dtasks[k].id, k>> \in scheduled_tasks_
  /\ \A k \in TaskIds \ OwnedTasks :
       /\ dtasks[k].id = 0
       /\ ~dtasks[k].registered
       /\ \A e \in scheduled_tasks_ : e[2] # k
  /\ next_task_id_ =
       1 + Cardinality(OwnedTasks)
         + Cardinality({t \in Threads : pc[t] = "so_make" /\ local[t].owner})

\* C22 witness: two callers got ids for tasks with an owner, and a call
\* without an owner has returned.
C22_Witness ==
  \E k, m, u \in TaskIds :
    /\ dtasks[k].owner /\ dtasks[m].owner
    /\ dtasks[k].caller # dtasks[m].caller
    /\ dtasks[k].returned /\ dtasks[m].returned
    /\ ~dtasks[u].owner /\ dtasks[u].returned

\* C23: a ScheduleOnReactor call that has returned handed its task to
\* exactly one reactor of the Messenger's list, and to the caller's own
\* reactor when the caller is a reactor thread; before the call returns the
\* task is with no reactor.
C23_OneReactor ==
  \A k \in TaskIds :
    IF dtasks[k].returned
    THEN /\ Cardinality(dtasks[k].handed) = 1
         /\ dtasks[k].handed \subseteq {reactors_[i] : i \in DOMAIN reactors_}
         /\ dtasks[k].caller \in ReactorIds =>
              dtasks[k].handed = {dtasks[k].caller}
    ELSE dtasks[k].handed = {}

\* C23 witness: a task scheduled from a reactor thread and one scheduled
\* from another thread have both been handed over.
C23_Witness ==
  \E k, m \in TaskIds :
    /\ dtasks[k].caller \in ReactorIds /\ dtasks[k].returned
    /\ dtasks[m].caller \in ExtThreads /\ dtasks[m].returned

\* A step that is an AbortOnReactor call, and the call.
AbortStep == Len(aborts') = Len(aborts) + 1
LastAbort == aborts'[Len(aborts')]

\* No task with an owner was ever given this id.
UnknownId(id) == \A k \in OwnedTasks : dtasks[k].id # id

\* AbortOnReactor returned and left the tasks, the map, the id counter and
\* the reactors' queues as they were.
AbortChangedNothing ==
  /\ LastAbort.returned
  /\ life' = life
  /\ UNCHANGED <<mutex_scheduled_tasks_, trip, dtasks, scheduled_tasks_, next_task_id_, r_tasks>>

\* The body of a task whose id was passed to AbortOnReactor while the task
\* was pending has not run.
AbortedNeverRan(ts) == \A k \in DOMAIN ts : ts[k].abort_pending => ts[k].ran = 0

\* C21: when AbortOnReactor(id) is called before the delay of the task
\* elapses, the body of the task never runs as a normal firing; when it is
\* called after the task has run, or with an unknown id, it changes nothing
\* and returns.
C21_AbortAnyId ==
  [][/\ AbortedNeverRan(dtasks')
     /\ AbortStep /\ (LastAbort.ran \/ UnknownId(LastAbort.id)) =>
          AbortChangedNothing]_vars

\* C21 for the ids AbortOnReactor accepts: as above, with an unknown id
\* other than -1.
C21_AbortAcceptedId ==
  [][/\ AbortedNeverRan(dtasks')
     /\ /\ AbortStep
        /\ LastAbort.ran \/ (UnknownId(LastAbort.id) /\ LastAbort.id # 0 - 1)
        => AbortChangedNothing]_vars

\* C21 witness: one task was aborted while it was pending and its body has
\* not run, and an AbortOnReactor call with an unknown id has returned.
C21_Witness ==
  /\ \E k \in TaskIds :
       dtasks[k].abort_pending /\ dtasks[k].aborted = 1 /\ dtasks[k].ran = 0
  /\ \E a \in DOMAIN aborts : UnknownId(aborts[a].id) /\ aborts[a].returned

\* ------------------------------------------------- registry, further claims

EmptyRegistry == [n \in ServiceNames |-> NoService]

\* C37: UnregisterAllServices returns OK whatever the registry holds; when
\* it has returned, and until another call changes the registry, the
\* registry and the published snapshot are empty, and a dispatch that
\* begins after an unregistration of its name returned, and before a new
\* registration of it, fails with ServiceUnavailable.
C37_UnregisterAll ==
  /\ ret.op = "UnregisterAllServices" =>
       /\ ret.status = "OK"
       /\ rpc_services_cache_ = EmptyRegistry
       /\ lock_ = NoThread => rpc_services_ = EmptyRegistry
  /\ \A i \in DOMAIN inbound :
       inbound[i].phase = "unregistered" =>
         /\ inbound[i].failures = 1
         /\ inbound[i].status = "ServiceUnavailable"
         /\ inbound[i].handed = 0

\* C37 witness: UnregisterAllServices has returned after another
\* registry call had, and a dispatch begun after it has failed.
C37_Witness ==
  /\ ret.op = "UnregisterAllServices"
  /\ ret.n >= 2
  /\ rpc_services_ = EmptyRegistry
  /\ \E i \in DOMAIN inbound :
       inbound[i].phase = "unregistered" /\ inbound[i].failures = 1

\* The live Messenger used for its registry only: services are registered
\* and unregistered and inbound calls dispatched, and nothing shuts it down.
LiveThreadStep(t) ==
  \/ RegisterService(t)
  \/ RegisterServiceCache(t)
  \/ UnregisterService(t)
  \/ UnregisterServiceCache(t)
  \/ UnregisterAllServices(t)
  \/ UnregisterAllServicesCache(t)
  \/ QueueInboundCall(t)
  \/ Handle(t)
  \/ InboundDispatch(t)

LiveNext == \E t \in ExtThreads : LiveThreadStep(t)

LiveSpec == Init /\ [][LiveNext]_vars

\* A RegisterService or UnregisterService that fails had a reason to: the
\* name was present, or absent, when the call looked.
FailsOnlyWithReason ==
  /\ Returned("RegisterService") /\ ret'.status # "OK" =>
       ret'.status = "AlreadyPresent" /\ rpc_services_[ret'.name] # NoService
  /\ Returned("UnregisterService") /\ ret'.status # "OK" =>
       ret'.status = "ServiceUnavailable" /\ rpc_services_[ret'.name] = NoService

\* Where the history of a name stands once lock_ is free again: after
\* register and unregister the registry and the snapshot are as they were
\* before; after the second register they are as before but for the name,
\* which is bound to the handler of the second register.
TripHolds(t, reg, cache) ==
  /\ t.stage = 1 =>
       /\ reg = [t.registry EXCEPT ![t.name] = t.handler]
       /\ cache[t.name] = t.handler
  /\ t.stage = 2 => reg = t.registry /\ cache = t.cache
  /\ t.stage = 3 =>
       /\ reg = [t.registry EXCEPT ![t.name] = t.handler]
       /\ cache = [t.cache EXCEPT ![t.name] = t.handler]

\* C38: while the Messenger is live, RegisterService(name, h) for a name
\* that is not registered succeeds, the UnregisterService(name) that follows
\* succeeds and leaves the registry and the snapshot as they were before the
\* two, and a RegisterService(name, h2) after that succeeds and binds name
\* to h2.
C38_HotReregistration ==
  [][/\ FailsOnlyWithReason
     /\ lock_' = NoThread => TripHolds(trip', rpc_services_', rpc_services_cache_')]_vars

\* C38 witness: a name was registered, unregistered and registered again
\* with another handler, and the last call has returned OK.
C38_Witness ==
  /\ trip.stage = 3
  /\ lock_ = NoThread
  /\ ret.op = "RegisterService" /\ ret.status = "OK"
  /\ ret.name = trip.name /\ ret.handler = trip.handler
  /\ ret.n = 3
  /\ rpc_services_cache_[trip.name] = trip.handler

\* ---------------------------------------------- connectivity, further claims

\* C34: whenever no thread holds lock_, has_broken_connectivity_ is true
\* exactly when broken_connectivity_ is not empty, and the flag is never
\* false while the set holds an address; so the answer of
\* IsArtificiallyDisconnectedFrom(a), on which a socket is closed or
\* accepted, is whether a is in the set when the answer is decided.
C34_FlagMatchesSet ==
  /\ lock_ = NoThread =>
       (has_broken_connectivity_ <=> broken_connectivity_ # {})
  /\ ~has_broken_connectivity_ => broken_connectivity_ = {}
  /\ \A t \in Threads : pc[t] = "ri_act" => (local[t].disc <=> local[t].marked)
  /\ \A k \in SocketIds : sockets[k].closed <=> sockets[k].marked

\* C34 witness: the set is empty again and the flag false, after an address
\* was broken, a socket from it closed, and the address restored.
C34_Witness ==
  /\ lock_ = NoThread
  /\ ~has_broken_connectivity_
  /\ broken_connectivity_ = {}
  /\ \E k \in SocketIds : sockets[k].closed /\ sockets[k].marked

\* ------------------------------------------------- acceptor, further claims

\* C33: ListenAddress never calls Acceptor::Listen on an acceptor on which
\* Acceptor::Shutdown has been called (and which its owner then destroys),
\* whatever ShutdownAcceptor or Shutdown do meanwhile.
C33_NoListenAfterShutdown ==
  \A a \in DOMAIN acceptors : acceptors[a].late = 0

\* The drop tasks of thread t's BreakConnectivityWith that a reactor can
\* still run: those in the queue of a reactor whose thread has not exited.
DropTasksLeft(t) ==
  {<<r, i>> \in ReactorIds \X (1..(MaxOps * NumReactors)) :
     /\ pc[r] # "exited"
     /\ i \in DOMAIN r_tasks[r]
     /\ r_tasks[r][i].type = "drop"
     /\ r_tasks[r][i].owner = t}

\* C31: every BreakConnectivityWith call returns in the end, also when it
\* runs together with or after Shutdown: no call waits on its latch for more
\* countdowns than there are drop tasks left that a reactor can still run.
C31_BreakReturns ==
  \A t \in ExtThreads :
    pc[t] = "br_wait" => latch[t] <= Cardinality(DropTasksLeft(t))

\* --------------------------------------------- delayed tasks, further claims

\* C35: a task with an owner is in the scheduled-task map under its id
\* from before it is handed to its reactor: while it waits in the reactor's
\* queue or for its timer it is in the map, it has been registered when it
\* fires and when its id is returned to the caller, and once it has fired
\* its id is no longer in the map.
C35_RegisteredBeforeHandOver ==
  \A k \in OwnedTasks :
    /\ dtasks[k].state \in {"queued", "armed"} =>
         <<dtasks[k].id, k>> \in scheduled_tasks_
    /\ (dtasks[k].handed # {} \/ dtasks[k].returned
        \/ dtasks[k].state \in {"firing", "fired"}) => dtasks[k].registered
    /\ dtasks[k].state = "fired" =>
         \A e \in scheduled_tasks_ : e[1] # dtasks[k].id /\ e[2] # k

\* C35 witness: a task with an owner has fired, its caller has its id, and
\* the map holds nothing.
C35_Witness ==
  \E k \in OwnedTasks :
    /\ dtasks[k].state = "fired" /\ dtasks[k].ran = 1
    /\ dtasks[k].returned /\ dtasks[k].registered
    /\ scheduled_tasks_ = {}

\* The entries of the map other than those of id are as they were, and no
\* entry was added.
OnlyEntryRemoved(id) ==
  /\ scheduled_tasks_' \subseteq scheduled_tasks_
  /\ \A e \in scheduled_tasks_ \ scheduled_tasks_' : e[1] = id

\* A step that is the RemoveScheduledTask call of the task firing on r.
RemoveStep(r) == pc[r] = "tm_remove" /\ pc'[r] = "tm_func"

\* C36: AbortOnReactor(id) and RemoveScheduledTask(id) take at most the
\* entry of id out of the scheduled-task map and leave the others alone;
\* AbortOnReactor touches no task but the one with that id, the abort path
\* of a task is run at most once, and AbortOnReactor(id) finds a task at
\* most once.
C36_OnlyThatEntry ==
  [][/\ AbortStep =>
          /\ OnlyEntryRemoved(LastAbort.id)
          /\ \A k \in TaskIds :
               dtasks'[k] # dtasks[k] =>
                 dtasks[k].owner /\ dtasks[k].id = LastAbort.id
          /\ LastAbort.found =>
               \A a \in DOMAIN aborts :
                 aborts[a].id = LastAbort.id => ~aborts[a].found
     /\ \A r \in ReactorIds :
          RemoveStep(r) =>
            /\ OnlyEntryRemoved(dtasks[local[r].task].id)
            /\ dtasks' = dtasks
     /\ \A k \in DOMAIN dtasks' : dtasks'[k].aborted <= 1]_vars

\* C36 witness: a registered task was aborted through AbortOnReactor, and a
\* second AbortOnReactor for the same id found nothing.
C36_Witness ==
  /\ \E k \in OwnedTasks : dtasks[k].aborted = 1
  /\ \E a, b \in DOMAIN aborts :
       a < b /\ aborts[a].id = aborts[b].id /\ aborts[a].found /\ ~aborts[b].found

\* ------------------------------- AbortOnReactor, statement by statement

\* The variables that the delayed-task functions leave alone.
but_tasks == <<trip, socket_vars, rt, registry_vars, retain_self_, dropper,
               ret, messenger_vars, lock_, acceptors, reactor_vars, svc_stat,
               latch, calls, history_vars>>

\* Messenger::AbortOnReactor(task_id):  CHECK_NE(task_id, -1);
\* a failed CHECK ends the process.
AbortOnReactorEnter(t) ==
  /\ CanStart(t)
  /\ n_ops' = n_ops + 1
  /\ \E id \in AbortIds :
       IF id = 0 - 1
       THEN life' = "aborted" /\ UNCHANGED <<pc, local>>
       ELSE /\ life' = life
            /\ pc' = [pc EXCEPT ![t] = "ab_lock"]
            /\ local' = [local EXCEPT ![t] = [NoLocal EXCEPT !.id = id]]
  /\ UNCHANGED <<mutex_scheduled_tasks_, task_vars, but_tasks>>

\* AbortOnReactor:  std::lock_guard<std::mutex> guard(mutex_scheduled_tasks_);
AbortOnReactorLock(t) ==
  /\ pc[t] = "ab_lock"
  /\ mutex_scheduled_tasks_ = NoThread
  /\ mutex_scheduled_tasks_' = t
  /\ pc' = [pc EXCEPT ![t] = "ab_find"]
  /\ UNCHANGED <<task_vars, but_tasks, life, local, n_ops>>

\* The note AbortOnReactor leaves when it returns.
AbortNote(t, found) ==
  [id |-> local[t].id, found |-> found, returned |-> TRUE,
   ran |-> \E k \in TaskIds : dtasks[k].id = local[t].id /\ dtasks[k].ran > 0]

\* AbortOnReactor:  auto iter = scheduled_tasks_.find(task_id);
\*                  if (iter != scheduled_tasks_.end()) { ... }
\* with nothing found the guard is released and the call returns.
AbortOnReactorFind(t) ==
  /\ pc[t] = "ab_find"
  /\ LET found == MapFind(scheduled_tasks_, local[t].id)
     IN  IF found = {}
         THEN /\ mutex_scheduled_tasks_' = NoThread
              /\ aborts' = Append(aborts, AbortNote(t, FALSE))
              /\ Return(t)
         ELSE /\ \E k \in found :
                   local' = [local EXCEPT ![t].task = k]
              /\ pc' = [pc EXCEPT ![t] = "ab_task"]
              /\ UNCHANGED <<mutex_scheduled_tasks_, aborts>>
  /\ UNCHANGED <<next_task_id_, scheduled_tasks_, dtasks, but_tasks, life,
                 n_ops>>

\* AbortOnReactor:  task->AbortTask(STATUS(Aborted, ...));  the guard is
\* held.  A pending task goes on to call its function with the status.
AbortOnReactorAbortTask(t) ==
  /\ pc[t] = "ab_task"
  /\ dtasks' = [dtasks EXCEPT ![local[t].task] = AbortTask(@)]
  /\ pc' = [pc EXCEPT ![t] =
              IF dtasks[local[t].task].state \in PendingStates
              THEN "ab_func" ELSE "ab_erase"]
  /\ UNCHANGED <<mutex_scheduled_tasks_, next_task_id_, scheduled_tasks_,
                 aborts, but_tasks, life, local, n_ops>>

\* The function of the aborted task returns without calling the Messenger.
AbortFuncReturns(t) ==
  /\ pc[t] = "ab_func"
  /\ pc' = [pc EXCEPT ![t] = "ab_erase"]
  /\ UNCHANGED <<mutex_scheduled_tasks_, task_vars, but_tasks, life, local,
                 n_ops>>

\* The function of the aborted task calls ScheduleOnReactor(func, when, msgr)
\* with an owner: the reactor is chosen, the id taken, the task made, and
\* the call comes to lock_guard(mutex_scheduled_tasks_) at line 1034.
AbortFuncSchedules(t) ==
  /\ pc[t] = "ab_func"
  /\ \E chosen \in ChooseReactor(t) :
       dtasks' = Append(dtasks,
                   [NewTask(t) EXCEPT !.id = next_task_id_, !.owner = TRUE,
                                      !.chosen = chosen])
  /\ next_task_id_' = NextTaskId(next_task_id_)
  /\ local' = [local EXCEPT ![t].via = "ScheduleOnReactor"]
  /\ pc' = [pc EXCEPT ![t] = "re_lock"]
  /\ UNCHANGED <<mutex_scheduled_tasks_, scheduled_tasks_, aborts, but_tasks,
                 life, n_ops>>

\* The function of the aborted task calls AbortOnReactor(id): the call
\* comes to lock_guard(mutex_scheduled_tasks_) at line 1002.
AbortFuncAborts(t) ==
  /\ pc[t] = "ab_func"
  /\ local' = [local EXCEPT ![t].via = "AbortOnReactor"]
  /\ pc' = [pc EXCEPT ![t] = "re_lock"]
  /\ UNCHANGED <<mutex_scheduled_tasks_, task_vars, but_tasks, life, n_ops>>

\* The function of the aborted task calls RemoveScheduledTask(id): the call
\* comes to lock_guard(mutex_scheduled_tasks_) at line 994.
AbortFuncRemoves(t) ==
  /\ pc[t] = "ab_func"
  /\ local' = [local EXCEPT ![t].via = "RemoveScheduledTask"]
  /\ pc' = [pc EXCEPT ![t] = "re_lock"]
  /\ UNCHANGED <<mutex_scheduled_tasks_, task_vars, but_tasks, life, n_ops>>

\* std::mutex::lock() by the thread that owns the mutex is undefined: the
\* thread blocks for ever (it takes no further step), or the library
\* detects the deadlock and the process ends.
RelockEndsProcess(t) ==
  /\ pc[t] = "re_lock"
  /\ mutex_scheduled_tasks_ = t
  /\ life = "built"
  /\ life' = "aborted"
  /\ UNCHANGED <<mutex_scheduled_tasks_, task_vars, but_tasks, pc, local,
                 n_ops>>

\* AbortOnReactor:  scheduled_tasks_.erase(iter);  the guard is released and
\* the call returns.
AbortOnReactorErase(t) ==
  /\ pc[t] = "ab_erase"
  /\ scheduled_tasks_' = MapErase(scheduled_tasks_, local[t].id)
  /\ mutex_scheduled_tasks_' = NoThread
  /\ aborts' = Append(aborts, AbortNote(t, TRUE))
  /\ Return(t)
  /\ UNCHANGED <<next_task_id_, dtasks, but_tasks, life, n_ops>>

ReentryThreadStep(t) ==
  \/ ScheduleOnReactorChoose(t)
  \/ ScheduleOnReactorId(t)
  \/ ScheduleOnReactorRegister(t)
  \/ ScheduleOnReactorSchedule(t)
  \/ AbortOnReactorEnter(t)
  \/ AbortOnReactorLock(t)
  \/ AbortOnReactorFind(t)
  \/ AbortOnReactorAbortTask(t)
  \/ AbortFuncReturns(t)
  \/ AbortFuncSchedules(t)
  \/ AbortFuncAborts(t)
  \/ AbortFuncRemoves(t)
  \/ RelockEndsProcess(t)
  \/ AbortOnReactorErase(t)

ReentryNext ==
  \/ \E t \in Threads : ReentryThreadStep(t)
  \/ \E r \in ReactorIds : TaskReactorStep(r)

ReentrySpec == Init /\ [][ReentryNext]_vars

\* C32: AbortOnReactor returns whichever Messenger function the abort
\* function of the task calls: no thread comes to lock the scheduled-task
\* mutex in ScheduleOnReactor, AbortOnReactor or RemoveScheduledTask while
\* it holds that mutex itself.
C32_NoSelfDeadlock ==
  \A t \in Threads :
    ~(pc[t] = "re_lock" /\ mutex_scheduled_tasks_ = t)
====
